---- MODULE Spec2Model ----
(***************************************************************************)
(* A model of toMath (src/tomath.go): a wrapper around a fixed-point       *)
(* decimal that records, next to every numeric result, the formula that    *)
(* produced it, once in terms of names and once in terms of values.        *)
(*                                                                         *)
(* src/tomath.go holds two implementations of the package:                 *)
(*   - the string-based Decimal (lines 1383-2404): every operation builds  *)
(*     the two formula strings with fmt.Sprintf and keeps a "parens" bit;  *)
(*   - the tree-based Decimal (lines 1-1382): an operation builds a node   *)
(*     with pointers to copies of its operands and Math() walks the tree.  *)
(* The string-based definitions keep the names of the source; those of     *)
(* the tree-based implementation carry the prefix Tree.                    *)
(*                                                                         *)
(* A Go string is modelled as the sequence of the pieces it was assembled  *)
(* from (a token sequence); Str flattens it to the string itself.  The     *)
(* empty string is the empty sequence, so a token sequence is empty        *)
(* exactly when the Go string is.                                          *)
(*                                                                         *)
(* A decimal.Decimal (github.com/shopspring/decimal) is modelled as an     *)
(* integer number of 10^-Scale units.                                      *)
(***************************************************************************)
EXTENDS Integers, Sequences, FiniteSets, TLC

(***************************************************************************)
(* Bounds of the model.                                                    *)
(***************************************************************************)
\* the most constructor calls and operations in the histories of the
\* Decimals the caller holds
MaxSize == 5
\* the largest magnitude of the integer part of a decimal
MaxInt == 20
\* the largest exponent Pow is applied with
MaxExp == 2

\* the Decimals in the heap of the tree-based implementation
MaxHeap == 4

\* the iterations of the loop of the tree-based Math() that are followed
MaxSteps == 16

\* the longest string handed to NewFromString
MaxLen == 3

\* the most operations that run next to the concurrent Math() calls
MaxOps == 2

\* the most Abs and Add calls in an expression whose Math() is followed
MaxNodes == 3

\* the most operands Min, Max, Sum and Avg are called with
MaxOperands == 3
\* digits after the decimal point that the model's decimals carry
Scale == 2

RECURSIVE Pow10(_)
Pow10(k) == IF k = 0 THEN 1 ELSE 10 * Pow10(k - 1)

\* the decimal 1, in units of 10^-Scale
Unit == Pow10(Scale)

Names == {"a", "b"}
SetNames == {"c", ""}
Vals == {2 * Unit}
Places == {1}
Regs == {1, 2}

(***************************************************************************)
(* Strings as token sequences.                                             *)
(***************************************************************************)
RECURSIVE Str(_)
Str(t) == IF t = <<>> THEN "" ELSE Head(t) \o Str(Tail(t))

\* the token sequence of a Go string that is used as one piece
Tok(s) == IF s = "" THEN <<>> ELSE <<s>>

(***************************************************************************)
(* The decimal collaborator (github.com/shopspring/decimal), at the        *)
(* precision of the model.                                                 *)
(***************************************************************************)
dAbsInt(n) == IF n < 0 THEN 0 - n ELSE n

\* quotient truncated towards zero
TruncDiv(n, m) ==
    LET q == dAbsInt(n) \div dAbsInt(m)
    IN  IF (n < 0) = (m < 0) THEN q ELSE 0 - q

\* the k digits of f, with leading zeros
RECURSIVE Digits(_, _)
Digits(f, k) == IF k = 0 THEN "" ELSE Digits(f \div 10, k - 1) \o ToString(f % 10)

\* the k-digit fraction f # 0 without its trailing zeros
RECURSIVE Fraction(_, _)
Fraction(f, k) == IF f % 10 = 0 THEN Fraction(f \div 10, k - 1) ELSE Digits(f, k)

\* decimal.Decimal.String(): fixed-point text, trailing zeros trimmed
dString(n) ==
    LET a  == dAbsInt(n)
        ip == a \div Unit
        fp == a % Unit
        sg == IF n < 0 THEN "-" ELSE ""
        fr == IF fp = 0 THEN "" ELSE "." \o Fraction(fp, Scale)
    IN  sg \o ToString(ip) \o fr

dAbs(n) == dAbsInt(n)
dNeg(n) == 0 - n
dAdd(n, m) == n + m
dSub(n, m) == n - m
dMul(n, m) == TruncDiv(n * m, Unit)
dDiv(n, m) == TruncDiv(n * Unit, m)
dMod(n, m) == n - m * TruncDiv(n, m)

RECURSIVE dPowInt(_, _)
dPowInt(n, k) == IF k = 0 THEN Unit ELSE dMul(dPowInt(n, k - 1), n)
dPow(n, m) == dPowInt(n, m \div Unit)

\* decimal.Decimal.Round(places): half away from zero
dRound(n, places) ==
    LET q == Pow10(Scale - places)
        a == dAbsInt(n)
        r == ((a + q \div 2) \div q) * q
    IN  IF n < 0 THEN 0 - r ELSE r

\* the operation has an exact result within the precision of the model
\* d.QuoRem(d2, precision): the quotient q, a multiple of 10^-precision
\* cut towards zero, and the remainder r = d - d2 * q
dQuoRem(n, m, precision) ==
    LET step == Unit \div Pow10(precision)
        q == TruncDiv(n * Pow10(precision), m) * step
    IN  <<q, n - TruncDiv(m * q, Unit)>>

\* the operands whose quotient and remainder the model represents exactly
QuoRemOK(n, m, precision) ==
    /\ m # 0
    /\ precision >= 0
    /\ precision <= Scale
    /\ dAbsInt(m * dQuoRem(n, m, precision)[1]) % Unit = 0

RECURSIVE SeqSum(_)
SeqSum(ns) == IF ns = <<>> THEN 0 ELSE Head(ns) + SeqSum(Tail(ns))

\* decimal.Min, decimal.Max, decimal.Sum and decimal.Avg of first, rest...
dMin(ns) == CHOOSE n \in {ns[i] : i \in 1..Len(ns)} : \A i \in 1..Len(ns) : n <= ns[i]
dMax(ns) == CHOOSE n \in {ns[i] : i \in 1..Len(ns)} : \A i \in 1..Len(ns) : n >= ns[i]
dSum(ns) == SeqSum(ns)
dAvg(ns) == TruncDiv(SeqSum(ns), Len(ns))

\* the operands whose average the model represents exactly
AvgOK(ns) == dAbsInt(SeqSum(ns)) % Len(ns) = 0

\* the characters of the strings handed to NewFromString: a sign, digits,
\* the decimal point and a character no number holds
Chars == {"-", "1", "5", ".", "x"}

IsDigit(c) == c \in {"0", "1", "2", "3", "4", "5", "6", "7", "8", "9"}

DigitValue(c) == CHOOSE n \in 0..9 : ToString(n) = c

\* the number a string of digits writes in base 10
RECURSIVE Number(_)
Number(cs) ==
    IF cs = <<>> THEN 0
    ELSE 10 * Number(SubSeq(cs, 1, Len(cs) - 1)) + DigitValue(cs[Len(cs)])

\* a string in its parts: the sign, and the text before and after the
\* first decimal point (dot: whether there is one)
Parts(cs) ==
    LET minus == cs # <<>> /\ cs[1] = "-"
        body == IF minus THEN Tail(cs) ELSE cs
        dots == {i \in 1..Len(body) : body[i] = "."}
        at == IF dots = {} THEN Len(body) + 1
              ELSE CHOOSE i \in dots : \A j \in dots : i <= j
    IN  [neg |-> minus, dot |-> dots # {},
         int |-> SubSeq(body, 1, at - 1),
         frac |-> SubSeq(body, at + 1, Len(body))]

\* strings every decimal parser reads as a number: "15", "-1.5", ".5"
Plain(cs) ==
    LET p == Parts(cs)
    IN  /\ \A i \in 1..Len(p.int) : IsDigit(p.int[i])
        /\ \A i \in 1..Len(p.frac) : IsDigit(p.frac[i])
        /\ IF p.dot THEN p.frac # <<>> ELSE p.int # <<>>

\* strings no decimal parser reads as a number: a character that belongs
\* to no number, two decimal points, or no digit at all
Hopeless(cs) ==
    \/ \E i \in 1..Len(cs) : ~IsDigit(cs[i]) /\ cs[i] \notin {"-", "+", ".", "e", "E"}
    \/ Cardinality({i \in 1..Len(cs) : cs[i] = "."}) > 1
    \/ \A i \in 1..Len(cs) : ~IsDigit(cs[i])

\* the value of a plain string, in units
PlainValue(cs) ==
    LET p == Parts(cs)
        n == Number(p.int) * Unit + Number(p.frac) * Pow10(Scale - Len(p.frac))
    IN  IF p.neg THEN 0 - n ELSE n

\* decimal.NewFromString(value): the value of a plain string, an error for
\* a hopeless one; what the library does with the other strings ("1.",
\* "1-5", ".-5") is not in the repository, so it may answer either way
dNewFromString(value) ==
    IF Plain(value) THEN {[err |-> "nil", d |-> PlainValue(value)]}
    ELSE IF Hopeless(value) THEN {[err |-> "error", d |-> 0]}
    ELSE {[err |-> "error", d |-> 0]}
            \cup {[err |-> "nil", d |-> v] : v \in {0 - Unit, Unit}}

InRange(n) == dAbsInt(n) <= MaxInt * Unit
MulOK(n, m) == dAbsInt(n * m) % Unit = 0 /\ InRange(dMul(n, m))
DivOK(n, m) ==
    /\ m # 0
    /\ dAbsInt(n * Unit) % dAbsInt(m) = 0
    /\ InRange(dDiv(n, m))
ModOK(n, m) == m # 0
RECURSIVE PowIntOK(_, _)
PowIntOK(n, k) ==
    IF k = 0 THEN TRUE
    ELSE PowIntOK(n, k - 1) /\ MulOK(dPowInt(n, k - 1), n)
PowOK(n, m) ==
    /\ m % Unit = 0
    /\ m >= 0
    /\ m <= MaxExp * Unit
    /\ PowIntOK(n, m \div Unit)

(***************************************************************************)
(* The string-based Decimal (src/tomath.go:1394-1403).                     *)
(***************************************************************************)
Decimal(parens, name, decimal, vars, formula) ==
    [parens |-> parens, name |-> name, decimal |-> decimal,
     vars |-> vars, formula |-> formula]

\* Decimal{}, the zero value of the struct
ZeroValue == Decimal(FALSE, "", 0, <<>>, <<>>)

String(d) == dString(d.decimal)

New(value) ==
    Decimal(FALSE, "", value, <<>>, Tok(dString(value)))

NewWithName(name, value) ==
    Decimal(FALSE, name, value, Tok(name), Tok(dString(value)))

NewFromFloatWithName(name, value) ==
    Decimal(FALSE, name, value, Tok(name), Tok(dString(value)))

\* SetName that sets the name and nothing else
SetNameOnly(d, name) == [d EXCEPT !.name = name]

\* SetName that overwrites the names rendering of every receiver
\* NewFromString(value), lib being the answer of decimal.NewFromString(value)
NewFromString(value, lib) ==
    IF lib.err # "nil" THEN [d |-> ZeroValue, err |-> lib.err]
    ELSE [d |-> Decimal(FALSE, "", lib.d, <<>>, Tok(dString(lib.d))),
          err |-> "nil"]

\* NewFromStringWithName that names the Decimal it returns with an error
NewFromStringWithNameOnError(name, value, lib) ==
    IF lib.err # "nil"
    THEN [d |-> Decimal(FALSE, name, 0, Tok(name), <<>>), err |-> lib.err]
    ELSE [d |-> Decimal(FALSE, name, lib.d, Tok(name), Tok(dString(lib.d))),
          err |-> "nil"]

NewFromStringWithName(name, value, lib) ==
    IF lib.err # "nil" THEN [d |-> ZeroValue, err |-> lib.err]
    ELSE [d |-> Decimal(FALSE, name, lib.d, Tok(name), Tok(dString(lib.d))),
          err |-> "nil"]

SetNameAlways(d, name) == [d EXCEPT !.name = name, !.vars = Tok(name)]

SetName(d, name) ==
    LET d1 == [d EXCEPT !.name = name]
    IN  IF d1.vars = <<>> THEN [d1 EXCEPT !.vars = Tok(name)] ELSE d1

GetName(d) == d.name

\* Resolve that leaves the Decimal marked for parentheses
ResolveKeepsParens(d) ==
    Decimal(d.parens, d.name, d.decimal, Tok(d.name), Tok(String(d)))

Resolve(d) ==
    Decimal(FALSE, d.name, d.decimal, Tok(d.name), Tok(String(d)))

\* ResolveTo that composes its two calls in the wrong order
ResolveThenSetName(d, name) == SetName(Resolve(d), name)

ResolveTo(d, name) == Resolve(SetName(d, name))

\* Math with a pointer receiver: the caller's Decimal keeps the assignments
MathPointerReceiver(d) ==
    LET d1 == IF d.name = "" THEN [d EXCEPT !.name = "?"] ELSE d
        d2 == IF d1.vars = <<>> THEN [d1 EXCEPT !.vars = <<"?">>] ELSE d1
        d3 == IF d2.formula = <<>>
              THEN [d2 EXCEPT !.formula = Tok(String(d2))] ELSE d2
        d4 == [d3 EXCEPT !.vars = d3.vars \o <<" = ">> \o Tok(d3.name)]
        d5 == [d4 EXCEPT !.formula =
                   d4.formula \o <<" = ">> \o Tok(dString(d4.decimal))]
    IN  [self |-> d5, vars |-> d5.vars, formula |-> d5.formula]

\* Math has a value receiver: the assignments go to the copy d, and self
\* is what the caller's Decimal holds when the call returns.
Math(d) ==
    LET d1 == IF d.name = "" THEN [d EXCEPT !.name = "?"] ELSE d
        d2 == IF d1.vars = <<>> THEN [d1 EXCEPT !.vars = <<"?">>] ELSE d1
        d3 == IF d2.formula = <<>>
              THEN [d2 EXCEPT !.formula = Tok(String(d2))] ELSE d2
        d4 == [d3 EXCEPT !.vars = d3.vars \o <<" = ">> \o Tok(d3.name)]
        d5 == [d4 EXCEPT !.formula =
                   d4.formula \o <<" = ">> \o Tok(dString(d4.decimal))]
    IN  [self |-> d, vars |-> d5.vars, formula |-> d5.formula]

\* d.UnmarshalJSON(decimalBytes), lib being what d.decimal.UnmarshalJSON
\* answered and left in d.decimal: the Decimal d is afterwards, and the error
UnmarshalJSON(d, lib) ==
    IF lib.err # "nil" THEN [d |-> [d EXCEPT !.decimal = lib.d], err |-> lib.err]
    ELSE [d |-> [d EXCEPT !.decimal = lib.d, !.formula = Tok(dString(lib.d))],
          err |-> "nil"]

\* UnmarshalBinary, Scan, UnmarshalText and GobDecode have the same body
\* around their own call of the library
UnmarshalBinary(d, lib) == UnmarshalJSON(d, lib)

Scan(d, lib) == UnmarshalJSON(d, lib)

UnmarshalText(d, lib) == UnmarshalJSON(d, lib)

GobDecode(d, lib) == UnmarshalJSON(d, lib)

\* fmt.Sprintf("<sym>(%s)", s)
Call(sym, s) == <<sym \o "(">> \o s \o <<")">>

\* fmt.Sprintf("<sym>(%d)(%s)", p, s)
CallP(sym, p, s) == <<sym \o "(" \o ToString(p) \o ")(">> \o s \o <<")">>

Abs(d) ==
    Decimal(FALSE, "", dAbs(d.decimal), Call("abs", d.vars), Call("abs", d.formula))

Neg(d) ==
    Decimal(FALSE, "", dNeg(d.decimal), Call("neg", d.vars), Call("neg", d.formula))

Round(d, places) ==
    Decimal(FALSE, "", dRound(d.decimal, places),
            CallP("round", places, d.vars), CallP("round", places, d.formula))

\* Add that forgets to mark its result for parentheses
AddUnmarked(d, d2) ==
    Decimal(FALSE, "", dAdd(d.decimal, d2.decimal),
            d.vars \o <<" + ">> \o d2.vars,
            d.formula \o <<" + ">> \o d2.formula)

\* Add that hands the name of its receiver on to its result
AddKeepsName(d, d2) ==
    Decimal(TRUE, d.name, dAdd(d.decimal, d2.decimal),
            d.vars \o <<" + ">> \o d2.vars,
            d.formula \o <<" + ">> \o d2.formula)

Add(d, d2) ==
    Decimal(TRUE, "", dAdd(d.decimal, d2.decimal),
            d.vars \o <<" + ">> \o d2.vars,
            d.formula \o <<" + ">> \o d2.formula)

\* Sub that parenthesizes a right operand marked for parentheses
SubWrapsRight(d, d2) ==
    Decimal(TRUE, "", dSub(d.decimal, d2.decimal),
            d.vars \o <<" - ">>
                \o (IF d2.parens THEN <<"(">> \o d2.vars \o <<")">> ELSE d2.vars),
            d.formula \o <<" - ">>
                \o (IF d2.parens THEN <<"(">> \o d2.formula \o <<")">>
                    ELSE d2.formula))

Sub(d, d2) ==
    Decimal(TRUE, "", dSub(d.decimal, d2.decimal),
            d.vars \o <<" - ">> \o d2.vars,
            d.formula \o <<" - ">> \o d2.formula)

\* a format chain that has lost its first three branches
FormatPlain(d, d2, sym, s, s2) == s \o <<sym>> \o s2

\* the format chosen by the if / else-if chain of Mul, Div, Mod and Pow,
\* applied to the operator symbol and the two operand strings
Format(d, d2, sym, s, s2) ==
    IF d.parens /\ d2.parens
    THEN <<"(">> \o s \o <<")">> \o <<sym>> \o <<"(">> \o s2 \o <<")">>
    ELSE IF d.parens
    THEN <<"(">> \o s \o <<")">> \o <<sym>> \o s2
    ELSE IF d2.parens
    THEN s \o <<sym>> \o <<"(">> \o s2 \o <<")">>
    ELSE s \o <<sym>> \o s2

Mul(d, d2) ==
    Decimal(FALSE, "", dMul(d.decimal, d2.decimal),
            Format(d, d2, " * ", d.vars, d2.vars),
            Format(d, d2, " * ", d.formula, d2.formula))

Div(d, d2) ==
    Decimal(FALSE, "", dDiv(d.decimal, d2.decimal),
            Format(d, d2, " / ", d.vars, d2.vars),
            Format(d, d2, " / ", d.formula, d2.formula))

Mod(d, d2) ==
    Decimal(FALSE, "", dMod(d.decimal, d2.decimal),
            Format(d, d2, " % ", d.vars, d2.vars),
            Format(d, d2, " % ", d.formula, d2.formula))

Pow(d, d2) ==
    Decimal(FALSE, "", dPow(d.decimal, d2.decimal),
            Format(d, d2, "^", d.vars, d2.vars),
            Format(d, d2, "^", d.formula, d2.formula))

RECURSIVE Join(_, _)
\* strings.Join(list, sep)
Join(list, sep) ==
    IF Len(list) = 0 THEN <<>>
    ELSE IF Len(list) = 1 THEN list[1]
    ELSE list[1] \o <<sep>> \o Join(Tail(list), sep)

\* a variadic body that parenthesizes the operands marked for parentheses
VariadicWrapped(sym, value, first, rest) ==
    LET ds == <<first>> \o rest
        In(d, str) == IF d.parens THEN <<"(">> \o str \o <<")">> ELSE str
        varsList == [i \in 1..Len(ds) |-> In(ds[i], ds[i].vars)]
        formulaList == [i \in 1..Len(ds) |-> In(ds[i], ds[i].formula)]
    IN  Decimal(FALSE, "", value,
                Call(sym, Join(varsList, ", ")), Call(sym, Join(formulaList, ", ")))

\* the body that Min, Max, Sum and Avg share: the lists of the operands'
\* strings, joined and put inside "<sym>(%s)"
Variadic(sym, value, first, rest) ==
    LET ds == <<first>> \o rest
        varsList == [i \in 1..Len(ds) |-> ds[i].vars]
        formulaList == [i \in 1..Len(ds) |-> ds[i].formula]
    IN  Decimal(FALSE, "", value,
                Call(sym, Join(varsList, ", ")), Call(sym, Join(formulaList, ", ")))

\* the values of first, rest...
Decimals(first, rest) ==
    [i \in 1..(1 + Len(rest)) |-> IF i = 1 THEN first.decimal ELSE rest[i - 1].decimal]

Min(first, rest) == Variadic("min", dMin(Decimals(first, rest)), first, rest)

Max(first, rest) == Variadic("max", dMax(Decimals(first, rest)), first, rest)

Sum(first, rest) == Variadic("sum", dSum(Decimals(first, rest)), first, rest)

Avg(first, rest) == Variadic("avg", dAvg(Decimals(first, rest)), first, rest)

\* QuoRem that hands its two results back in the wrong order
QuoRemSwapped(d, d2, precision) ==
    LET qr == dQuoRem(d.decimal, d2.decimal, precision)
        v == CallP("quoRem", precision, Format(d, d2, " / ", d.vars, d2.vars))
        f == CallP("quoRem", precision,
                   Format(d, d2, " / ", d.formula, d2.formula))
    IN  <<Decimal(FALSE, d.name \o d2.name \o "Quotient", qr[2], v, f),
          Decimal(FALSE, d.name \o d2.name \o "Remainder", qr[1], v, f)>>

\* the four formats of QuoRem are "quoRem(%d)(" and ")" around those of Div
QuoRem(d, d2, precision) ==
    LET qr == dQuoRem(d.decimal, d2.decimal, precision)
        v == CallP("quoRem", precision, Format(d, d2, " / ", d.vars, d2.vars))
        f == CallP("quoRem", precision,
                   Format(d, d2, " / ", d.formula, d2.formula))
    IN  <<Decimal(FALSE, d.name \o d2.name \o "Quotient", qr[1], v, f),
          Decimal(FALSE, d.name \o d2.name \o "Remainder", qr[2], v, f)>>

(***************************************************************************)
(* The tree-based Decimal (src/tomath.go:181-188): a struct of pointers.   *)
(* A pointer to a string, a number or an operator tag is <<>> when nil     *)
(* and <<v>> when it points at v; a pointer to a Decimal is its address    *)
(* in the heap, 0 when nil.                                                *)
(***************************************************************************)
nil == <<>>

Ptr(v) == <<v>>

\* the operator tags
\* unary operators with precision
round == 0
roundBank == 1
roundCash == 2
shift == 3
truncate == 4
\* unary operations
abs == 5
atan == 6
ceil == 7
cos == 8
floor == 9
neg == 10
sin == 11
tan == 12
\* binary operators with precision
divRound == 13
quoRem == 14
\* binary operations
add == 15
div == 16
mod == 17
mul == 18
pow == 19
sub == 20
\* variatic operators
avg == 21
max == 22
min == 23
sum == 24

\* the table of the symbols, by tag
symbols ==
    abs :> "abs"
        @@ neg :> "neg"
        @@ round :> "round"
        @@ roundBank :> "roundBank"
        @@ roundCash :> "roundCash"
        @@ floor :> "floor"
        @@ ceil :> "ceil"
        @@ truncate :> "truncate"
        @@ atan :> "atan"
        @@ sin :> "sin"
        @@ cos :> "cos"
        @@ tan :> "tan"
        @@ add :> " + "
        @@ sub :> " - "
        @@ mul :> " * "
        @@ div :> " / "
        @@ shift :> "shift"
        @@ quoRem :> "quoRem"
        @@ divRound :> "divRound"
        @@ mod :> " % "
        @@ pow :> "^"
        @@ min :> "min"
        @@ max :> "max"
        @@ sum :> "sum"
        @@ avg :> "avg"

isUnary(b) == b < divRound

isUnaryWithPrecision(b) == b < abs

\* isBinary that leaves out the first binary tag
isBinaryAboveDivRound(b) == b < avg /\ b > divRound

isBinary(b) == b < avg /\ b > tan

isBinaryWithPrecision(b) == b < add /\ b > tan

isVariatic(b) == b > sub

leftParen == "("

rightParen == ")"

equal == " = "

TreeDecimal(left, op, right, name, value) ==
    [left |-> left, op |-> op, right |-> right, precision |-> nil,
     name |-> name, value |-> value]

\* Decimal{}
TreeZero == TreeDecimal(0, nil, 0, nil, nil)

TreeNew(value) == TreeDecimal(0, nil, 0, nil, Ptr(value))

TreeNewWithName(name, value) == TreeDecimal(0, nil, 0, Ptr(name), Ptr(value))

TreeNewFromString(value, lib) ==
    IF lib.err # "nil" THEN [d |-> TreeZero, err |-> lib.err]
    ELSE [d |-> TreeDecimal(0, nil, 0, nil, Ptr(lib.d)), err |-> "nil"]

TreeNewFromStringWithName(name, value, lib) ==
    IF lib.err # "nil" THEN [d |-> TreeZero, err |-> lib.err]
    ELSE [d |-> TreeDecimal(0, nil, 0, Ptr(name), Ptr(lib.d)), err |-> "nil"]

\* Abs that keeps the copy of its receiver in the slot allocated last
TreeAbsReusesSlot(h, d) ==
    IF Len(h) = 0 THEN [heap |-> <<d>>, d |-> TreeDecimal(1, Ptr(abs), 0, nil, nil)]
    ELSE [heap |-> [h EXCEPT ![Len(h)] = d],
          d |-> TreeDecimal(Len(h), Ptr(abs), 0, nil, nil)]

\* d.Abs() with the heap h: &d is the address of a fresh copy of the receiver
TreeAbs(h, d) ==
    [heap |-> Append(h, d),
     d |-> TreeDecimal(Len(h) + 1, Ptr(abs), 0, nil, nil)]

\* Add that keeps the copies of its operands in the two slots allocated last
TreeAddReusesSlots(h, d, d2) ==
    IF Len(h) < 2 THEN [heap |-> h \o <<d, d2>>,
                        d |-> TreeDecimal(Len(h) + 1, Ptr(add), Len(h) + 2, nil, nil)]
    ELSE [heap |-> [h EXCEPT ![Len(h) - 1] = d, ![Len(h)] = d2],
          d |-> TreeDecimal(Len(h) - 1, Ptr(add), Len(h), nil, nil)]

\* d.Add(d2) with the heap h: &d and &d2 are fresh copies
TreeAdd(h, d, d2) ==
    [heap |-> h \o <<d, d2>>,
     d |-> TreeDecimal(Len(h) + 1, Ptr(add), Len(h) + 2, nil, nil)]

\* the locals of Math()'s loop; panic says that the call has panicked
Loop(cur, parents, visited, values, v, f) ==
    [cur |-> cur, parents |-> parents, visited |-> visited, values |-> values,
     vars |-> v, formula |-> f, panic |-> FALSE]

Panicked(s) == [s EXCEPT !.panic = TRUE]

\* d.value.String() dereferences d.value
writeValue(s, d) ==
    IF d.value = nil THEN Panicked(s)
    ELSE [s EXCEPT !.vars = @ \o (IF d.name # nil /\ d.name[1] # ""
                                     THEN <<d.name[1]>> ELSE <<"?">>),
                   !.formula = @ \o <<dString(d.value[1])>>]

write(s, str) == [s EXCEPT !.vars = @ \o Tok(str), !.formula = @ \o Tok(str)]

\* the switch on the operator that ends an iteration of the loop
Evaluate(s, b) ==
    LET n == Len(s.values)
    IN  IF b = abs
          THEN IF n < 1 THEN Panicked(s)
               ELSE [s EXCEPT !.values = SubSeq(@, 1, n - 1) \o <<dAbs(s.values[n])>>]
        ELSE IF b = add
          THEN IF n < 2 THEN Panicked(s)
               ELSE [s EXCEPT !.values = SubSeq(@, 1, n - 2)
                                  \o <<dAdd(s.values[n - 1], s.values[n])>>]
        ELSE s

\* curDecimal = the top of parents, or nil when there is none
Return(s) ==
    IF Len(s.parents) > 0
      THEN [s EXCEPT !.cur = s.parents[Len(s.parents)],
                     !.parents = SubSeq(@, 1, Len(@) - 1)]
    ELSE [s EXCEPT !.cur = 0]

\* going down without pushing the node that is left
DescendWithoutPush(s, to) == [s EXCEPT !.cur = to]

Descend(s, to) == [s EXCEPT !.parents = Append(@, s.cur), !.cur = to]

\* one iteration of the loop of Math() over the heap h
Step(h, s) ==
    LET c == h[s.cur]
    IN  IF c.op = nil
          THEN LET w == writeValue(s, c)
               IN  IF w.panic \/ Len(s.parents) = 0 THEN Panicked(s)
                   ELSE Return([w EXCEPT !.values = Append(@, c.value[1]),
                                         !.visited = @ \cup {s.cur}])
        ELSE
          LET b == c.op[1]
              s1 == IF s.cur \notin s.visited /\ isUnary(b)
                      THEN [write(write(s, symbols[b]), leftParen)
                               EXCEPT !.visited = @ \cup {s.cur}]
                    ELSE s
              s2 == IF isUnary(b) THEN write(s1, rightParen)
                    ELSE IF s1.cur \notin s1.visited /\ isBinary(b)
                      THEN [write(s1, symbols[b]) EXCEPT !.visited = @ \cup {s.cur}]
                    ELSE s1
              s3 == Evaluate(s2, b)
          IN  IF c.left # 0 /\ c.left \notin s1.visited THEN Descend(s1, c.left)
              ELSE IF c.right # 0 /\ c.right \notin s2.visited
                THEN Descend(s2, c.right)
              ELSE IF s3.panic THEN s3
              ELSE Return(s3)

RECURSIVE Run(_, _, _)
\* the loop, for at most fuel iterations
Run(h, s, fuel) ==
    IF s.cur = 0 \/ s.panic \/ fuel = 0 THEN s
    ELSE Run(h, Step(h, s), fuel - 1)

Outcome(status, v, f) == [status |-> status, vars |-> v, formula |-> f]

\* what Math() does once its loop has been left in state s
Result(s) ==
    IF s.panic THEN Outcome("panic", <<>>, <<>>)
    ELSE IF s.cur # 0 THEN Outcome("running", <<>>, <<>>)
    ELSE IF Len(s.values) = 0 THEN Outcome("panic", <<>>, <<>>)
    ELSE Outcome("ok", s.vars \o <<equal, "?">>,
                 s.formula \o <<equal, dString(s.values[1])>>)

\* d.Math() with the heap h: "ok" with the two strings, "panic", or
\* "running" when the loop has not ended after MaxSteps iterations
TreeMath(h, d) ==
    IF d.op = nil
      THEN IF d.value = nil THEN Outcome("panic", <<>>, <<>>)
           ELSE LET n == IF d.name = nil THEN <<"?">> ELSE Tok(d.name[1])
                    value == <<dString(d.value[1])>>
                IN  Outcome("ok", n \o <<equal>> \o n, value \o <<equal>> \o value)
    ELSE
      LET hd == Append(h, d)
          s == Run(hd, Loop(Len(hd), <<>>, {}, <<>>, <<>>, <<>>), MaxSteps)
      IN  Result(s)

(***************************************************************************)
(* The state: a caller that holds Decimals in registers and applies the    *)
(* operations of the package to them.                                      *)
(*   reg   the Decimal each register holds (Decimal{} at the start);       *)
(*   by    how the Decimal of each register was produced: the operation,   *)
(*         what it read of its operands (args), the operation each of      *)
(*         them came from and whether SetName had been applied to it       *)
(*         (argby), the name SetName gave the result since, if any, and    *)
(*         the size of its history (the number of constructor calls and    *)
(*         operations in it);                                              *)
(*   out   the Math() calls made on a register since it was last written:  *)
(*         how many (counted up to 2) and the strings of the latest one;   *)
(*   test  the locals of a test of the package that runs as a program of   *)
(*         its own (TestComplexExample, TestSub): the statement it is at,  *)
(*         its inputs, its Decimals and the strings Math() returned.       *)
(* The tree-based implementation (src/tomath.go:181-592) has its own:      *)
(*   heap  the Decimal structs that live behind a pointer, by address      *)
(*         (1, 2, ...; 0 is the nil pointer);                              *)
(*   loc   the caller's local Decimal variables;                           *)
(*   res   what the latest Math() call on a local did.                     *)
(***************************************************************************)
VARIABLES reg, by, out, test, heap, loc, res

vars == <<reg, by, out, test, heap, loc, res>>

\* the state of the tree-based implementation
tree == <<heap, loc, res>>

Made(op, args, argby, size) ==
    [op |-> op, args |-> args, argby |-> argby,
     named |-> FALSE, n |-> "", size |-> size]

\* what an operation reads of an operand: its two strings and its value
Operand(d) == [vars |-> d.vars, formula |-> d.formula, decimal |-> d.decimal]

\* a register the caller has not written holds Decimal{}
Unused == Made("zero", <<>>, <<>>, 0)

NoOut == [r |-> 0, calls |-> 0, vars |-> <<>>, formula |-> <<>>]

\* the locals of a test that has not started, with inputs in
Locals(in) ==
    [pc |-> 0, in |-> in, d |-> ZeroValue, d2 |-> ZeroValue,
     vars |-> <<>>, formula |-> <<>>]

\* no Math() call on a local since the locals last changed
NoRes == [r |-> 0, status |-> "none", vars |-> <<>>, formula |-> <<>>]

Init ==
    /\ reg = [r \in Regs |-> ZeroValue]
    /\ by = [r \in Regs |-> Unused]
    /\ out = NoOut
    /\ test = Locals(<<>>)
    /\ heap = <<>>
    /\ loc = [r \in Regs |-> TreeZero]
    /\ res = NoRes

\* the size of a Decimal that is used: Decimal{} counts as a leaf
Used(b) == IF b.size = 0 THEN 1 ELSE b.size

\* the size of the result of an operation on the operands args
RECURSIVE SizeOf(_)
SizeOf(args) ==
    IF args = <<>> THEN 1 ELSE Used(by[Head(args)]) + SizeOf(Tail(args))

\* register r receives the result of operation op on the registers
\* args; the caller keeps the result and drops the operands it passed
Put(r, op, args, result) ==
    /\ by' = [q \in Regs |->
                 IF q = r
                 THEN Made(op,
                           [i \in 1..Len(args) |-> Operand(reg[args[i]])],
                           [i \in 1..Len(args) |->
                               [op |-> by[args[i]].op,
                                named |-> by[args[i]].named]],
                           SizeOf(args))
                 ELSE IF \E i \in 1..Len(args) : args[i] = q THEN Unused
                 ELSE by[q]]
    /\ by'[1].size + by'[2].size <= MaxSize
    /\ reg' = [q \in Regs |->
                 IF q = r THEN result
                 ELSE IF \E i \in 1..Len(args) : args[i] = q THEN ZeroValue
                 ELSE reg[q]]
    /\ out' = NoOut
    /\ UNCHANGED <<test, tree>>

DoNew(r, value) == Put(r, "New", <<>>, New(value))

DoNewWithName(r, name, value) ==
    Put(r, "NewWithName", <<>>, NewWithName(name, value))

DoAbs(r) == Put(r, "Abs", <<r>>, Abs(reg[r]))

DoRound(r, places) == Put(r, "Round", <<r>>, Round(reg[r], places))

DoAdd(r) ==
    /\ InRange(dAdd(reg[1].decimal, reg[2].decimal))
    /\ Put(r, "Add", <<1, 2>>, Add(reg[1], reg[2]))

DoSub(r) ==
    /\ InRange(dSub(reg[1].decimal, reg[2].decimal))
    /\ Put(r, "Sub", <<1, 2>>, Sub(reg[1], reg[2]))

DoMul(r) ==
    /\ MulOK(reg[1].decimal, reg[2].decimal)
    /\ Put(r, "Mul", <<1, 2>>, Mul(reg[1], reg[2]))

DoDiv(r) ==
    /\ DivOK(reg[1].decimal, reg[2].decimal)
    /\ Put(r, "Div", <<1, 2>>, Div(reg[1], reg[2]))

DoMod(r) ==
    /\ ModOK(reg[1].decimal, reg[2].decimal)
    /\ Put(r, "Mod", <<1, 2>>, Mod(reg[1], reg[2]))

DoPow(r) ==
    /\ PowOK(reg[1].decimal, reg[2].decimal)
    /\ Put(r, "Pow", <<1, 2>>, Pow(reg[1], reg[2]))

\* d = d.SetName(name): the Decimal stays the result of the operation that
\* produced it, now named
DoSetName(r, name) ==
    /\ reg' = [reg EXCEPT ![r] = SetName(reg[r], name)]
    /\ by' = [by EXCEPT ![r] =
                  [by[r] EXCEPT !.named = TRUE, !.n = name,
                                !.size = Used(by[r]) + 1]]
    /\ by'[1].size + by'[2].size <= MaxSize
    /\ out' = NoOut
    /\ UNCHANGED <<test, tree>>

\* d = d.Resolve()
DoResolve(r) ==
    /\ reg' = [reg EXCEPT ![r] = Resolve(reg[r])]
    /\ by' = [by EXCEPT ![r] = Made("Resolve", <<>>, <<>>, Used(by[r]) + 1)]
    /\ by'[1].size + by'[2].size <= MaxSize
    /\ out' = NoOut
    /\ UNCHANGED <<test, tree>>

\* d = d.ResolveTo(name): two calls for the size, the name kept in n
DoResolveTo(r, name) ==
    /\ reg' = [reg EXCEPT ![r] = ResolveTo(reg[r], name)]
    /\ by' = [by EXCEPT ![r] =
                  [Made("ResolveTo", <<>>, <<>>, Used(by[r]) + 2)
                      EXCEPT !.n = name]]
    /\ by'[1].size + by'[2].size <= MaxSize
    /\ out' = NoOut
    /\ UNCHANGED <<test, tree>>

\* vars, formula := reg[r].Math()
DoMath(r) ==
    LET m == Math(reg[r])
    IN  /\ reg' = [reg EXCEPT ![r] = m.self]
        /\ out' = [r |-> r,
                   calls |-> IF out.r = r THEN 2 ELSE 1,
                   vars |-> m.vars, formula |-> m.formula]
        /\ UNCHANGED <<by, test, tree>>

Next ==
    \/ \E r \in Regs, v \in Vals : DoNew(r, v)
    \/ \E r \in Regs, n \in Names, v \in Vals : DoNewWithName(r, n, v)
    \/ \E r \in Regs : DoAbs(r)
    \/ \E r \in Regs, p \in Places : DoRound(r, p)
    \/ \E r \in Regs : DoAdd(r)
    \/ \E r \in Regs : DoSub(r)
    \/ \E r \in Regs : DoMul(r)
    \/ \E r \in Regs : DoDiv(r)
    \/ \E r \in Regs : DoMod(r)
    \/ \E r \in Regs : DoPow(r)
    \/ \E n \in SetNames : DoSetName(1, n)
    \/ DoResolve(1)
    \/ \E n \in SetNames : DoResolveTo(1, n)
    \/ DoMath(1)

Spec == Init /\ [][Next]_vars

(***************************************************************************)
(* TestComplexExample (src/tomath_test.go:226-243, the example of          *)
(* src/README.md:33-43) as a program: one action per statement of the      *)
(* chain, the four values drawn from small sets.                           *)
(***************************************************************************)
\* the decimal n/10
Tenths(n) == (n * Unit) \div 10

ComplexInputs ==
    {<<v1, v2, v3, v4>> :
        v1 \in {Tenths(11), Tenths(21), 3 * Unit},
        v2 \in {Unit, 2 * Unit},
        v3 \in {Unit, 2 * Unit},
        v4 \in {2 * Unit, 3 * Unit}}

InitComplex ==
    /\ reg = [r \in Regs |-> ZeroValue]
    /\ by = [r \in Regs |-> Unused]
    /\ out = NoOut
    /\ heap = <<>>
    /\ loc = [r \in Regs |-> TreeZero]
    /\ res = NoRes
    /\ \E in \in ComplexInputs : test = Locals(in)

\* statement pc of the test assigns e to d
Assign(pc, e) ==
    /\ test.pc = pc
    /\ test' = [test EXCEPT !.pc = pc + 1, !.d = e]
    /\ UNCHANGED <<reg, by, out, tree>>

\* statement pc of the test is vars, formula := d.Math()
CallMath(pc) ==
    /\ test.pc = pc
    /\ LET m == Math(test.d)
       IN  test' = [test EXCEPT !.pc = pc + 1, !.d = m.self,
                          !.vars = m.vars, !.formula = m.formula]
    /\ UNCHANGED <<reg, by, out, tree>>

ComplexNew == Assign(0, NewFromFloatWithName("var1", test.in[1]))

ComplexRound == Assign(1, Round(test.d, 1))

ComplexAdd ==
    \E pc \in {2, 3} :
        Assign(pc, Add(test.d, NewFromFloatWithName("var2", test.in[2])))

ComplexDiv ==
    /\ DivOK(test.d.decimal, test.in[3])
    /\ Assign(4, Div(test.d, NewFromFloatWithName("var3", test.in[3])))

ComplexMul ==
    /\ MulOK(test.d.decimal, test.in[4])
    /\ Assign(5, Mul(test.d, NewFromFloatWithName("var4", test.in[4])))

ComplexSetName == Assign(6, SetName(test.d, "var5"))

ComplexMath == \E pc \in {7, 8} : CallMath(pc)

NextComplex ==
    \/ ComplexNew
    \/ ComplexRound
    \/ ComplexAdd
    \/ ComplexDiv
    \/ ComplexMul
    \/ ComplexSetName
    \/ ComplexMath

SpecComplex == InitComplex /\ [][NextComplex]_vars

(***************************************************************************)
(* TestSub (src/unnamed/part_000:188-200) as a program, the four values    *)
(* drawn from a small set.                                                 *)
(***************************************************************************)
SubValues == {0 - Unit, 0, Unit, Tenths(25)}

InitSub ==
    /\ reg = [r \in Regs |-> ZeroValue]
    /\ by = [r \in Regs |-> Unused]
    /\ out = NoOut
    /\ heap = <<>>
    /\ loc = [r \in Regs |-> TreeZero]
    /\ res = NoRes
    /\ \E in \in SubValues \X SubValues \X SubValues \X SubValues :
          test = Locals(in)

\* d := NewWithName("var1", v1).Sub(NewWithName("var2", v2))
SubFirst ==
    /\ test.pc = 0
    /\ test' = [test EXCEPT !.pc = 1,
                      !.d = Sub(NewWithName("var1", test.in[1]),
                                NewWithName("var2", test.in[2]))]
    /\ UNCHANGED <<reg, by, out, tree>>

\* d2 := NewWithName("var3", v3).Sub(NewWithName("var4", v4))
SubSecond ==
    /\ test.pc = 2
    /\ test' = [test EXCEPT !.pc = 3,
                      !.d2 = Sub(NewWithName("var3", test.in[3]),
                                 NewWithName("var4", test.in[4]))]
    /\ UNCHANGED <<reg, by, out, tree>>

\* d3 := d.Sub(d2), kept in d
SubBoth == Assign(3, Sub(test.d, test.d2))

SubMath == \E pc \in {1, 4} : CallMath(pc)

NextSub ==
    \/ SubFirst
    \/ SubSecond
    \/ SubBoth
    \/ SubMath

SpecSub == InitSub /\ [][NextSub]_vars

(***************************************************************************)
(* The second half of the README example (src/unnamed/part_002:21-24) as   *)
(* a program: a Decimal named var5 is resolved and then used, on either    *)
(* side, as an operand of an infix operation with the leaf var6.  The      *)
(* Decimal, the operation, the side and the value of var6 are drawn.       *)
(***************************************************************************)
\* the call of the infix operation named op
Apply(op, d, d2) ==
    CASE op = "Add" -> Add(d, d2)
      [] op = "Sub" -> Sub(d, d2)
      [] op = "Mul" -> Mul(d, d2)
      [] op = "Div" -> Div(d, d2)
      [] op = "Mod" -> Mod(d, d2)
      [] op = "Pow" -> Pow(d, d2)

\* the values the model can apply the operation named op to
ApplyOK(op, n, m) ==
    CASE op = "Add" -> InRange(dAdd(n, m))
      [] op = "Sub" -> InRange(dSub(n, m))
      [] op = "Mul" -> MulOK(n, m)
      [] op = "Div" -> DivOK(n, m)
      [] op = "Mod" -> ModOK(n, m)
      [] op = "Pow" -> PowOK(n, m)

\* the Decimal d of the first half of the README example, before SetName
ReadmeChain ==
    Mul(Div(Add(Add(Round(NewFromFloatWithName("var1", Tenths(11)), 1),
                    NewFromFloatWithName("var2", Unit)),
                NewFromFloatWithName("var2", Unit)),
            NewFromFloatWithName("var3", 2 * Unit)),
        NewFromFloatWithName("var4", 2 * Unit))

\* Decimals with a history
Histories ==
    LET a == NewFromFloatWithName("var1", Tenths(11))
        b == NewFromFloatWithName("var2", Unit)
    IN  {ReadmeChain, Add(a, b), Sub(a, b), Mul(a, b), Abs(a), Round(a, 1), a}

ResolveInputs ==
    [d : {SetName(h, "var5") : h \in Histories},
     op : {"Add", "Sub", "Mul", "Div", "Mod", "Pow"},
     left : BOOLEAN, v : {2 * Unit, 3 * Unit}]

InitResolve ==
    /\ reg = [r \in Regs |-> ZeroValue]
    /\ by = [r \in Regs |-> Unused]
    /\ out = NoOut
    /\ heap = <<>>
    /\ loc = [r \in Regs |-> TreeZero]
    /\ res = NoRes
    /\ \E in \in ResolveInputs : test = Locals(in)

\* d is the Decimal named var5
ResolveGiven == Assign(0, test.in.d)

\* d = d.Resolve()
ResolveCall == Assign(1, Resolve(test.d))

\* d = d.<op>(var6), or d = var6.<op>(d)
ResolveUse ==
    LET var6 == NewFromFloatWithName("var6", test.in.v)
    IN  IF test.in.left
        THEN /\ ApplyOK(test.in.op, test.d.decimal, var6.decimal)
             /\ Assign(2, Apply(test.in.op, test.d, var6))
        ELSE /\ ApplyOK(test.in.op, var6.decimal, test.d.decimal)
             /\ Assign(2, Apply(test.in.op, var6, test.d))

ResolveSetName == Assign(3, SetName(test.d, "var7"))

ResolveMath == CallMath(4)

NextResolve ==
    \/ ResolveGiven
    \/ ResolveCall
    \/ ResolveUse
    \/ ResolveSetName
    \/ ResolveMath

SpecResolve == InitResolve /\ [][NextResolve]_vars

(***************************************************************************)
(* TestQuoRem (src/tomath_test.go:139-149) as a program.  The operands     *)
(* are drawn: each is a leaf or the result of an Add, so that all four     *)
(* formats occur, with values of one decimal place and a precision of 0    *)
(* or 1, which keep the remainder within the resolution of the model.      *)
(***************************************************************************)
QuoRemInputs ==
    LET one == NewFromFloatWithName("var3", Unit)
        Of(name, vs) ==
            {NewFromFloatWithName(name, v) : v \in vs}
                \cup {Add(NewFromFloatWithName(name, v), one) : v \in vs}
    IN  [d : Of("var1", {Tenths(43), 0 - Tenths(43), 5 * Unit}),
         d2 : Of("var2", {Tenths(27), 2 * Unit}),
         precision : {0, 1}]

InitQuoRem ==
    /\ reg = [r \in Regs |-> ZeroValue]
    /\ by = [r \in Regs |-> Unused]
    /\ out = NoOut
    /\ heap = <<>>
    /\ loc = [r \in Regs |-> TreeZero]
    /\ res = NoRes
    /\ \E in \in QuoRemInputs : test = Locals(in)

\* d1, d2 := d.QuoRem(d2, precision), kept in d and d2
QuoRemCall ==
    /\ test.pc = 0
    /\ QuoRemOK(test.in.d.decimal, test.in.d2.decimal, test.in.precision)
    /\ LET qr == QuoRem(test.in.d, test.in.d2, test.in.precision)
       IN  test' = [test EXCEPT !.pc = 1, !.d = qr[1], !.d2 = qr[2]]
    /\ UNCHANGED <<reg, by, out, tree>>

\* vars, formula := d1.Math()
QuoRemMathQuotient == CallMath(1)

\* vars, formula = d2.Math()
QuoRemMathRemainder ==
    /\ test.pc = 2
    /\ LET m == Math(test.d2)
       IN  test' = [test EXCEPT !.pc = 3, !.d2 = m.self,
                                !.vars = m.vars, !.formula = m.formula]
    /\ UNCHANGED <<reg, by, out, tree>>

NextQuoRem ==
    \/ QuoRemCall
    \/ QuoRemMathQuotient
    \/ QuoRemMathRemainder

SpecQuoRem == InitQuoRem /\ [][NextQuoRem]_vars

(***************************************************************************)
(* TestMin, TestMax, TestSum and TestAvg (src/tomath_test.go:245-275) as   *)
(* a program.  The function and its operands are drawn: one to             *)
(* MaxOperands operands, operand i being the leaf var<i> or the result of  *)
(* an Add or a Sub on it.                                                  *)
(***************************************************************************)
\* the Decimals that can stand as operand i
OperandsAt(i) ==
    LET name == "var" \o ToString(i)
        one == NewFromFloatWithName("one", Unit)
        leaves == {NewFromFloatWithName(name, v) : v \in {i * Unit, 100 * Unit}}
    IN  leaves \cup {Add(d, one) : d \in leaves} \cup {Sub(d, one) : d \in leaves}

\* the operand lists of k operands
OperandLists(k) ==
    {ds \in [1..k -> UNION {OperandsAt(i) : i \in 1..k}] :
        \A i \in 1..k : ds[i] \in OperandsAt(i)}

VariadicInputs ==
    [fn : {"Min", "Max", "Sum", "Avg"},
     ds : UNION {OperandLists(k) : k \in 1..MaxOperands}]

InitVariadic ==
    /\ reg = [r \in Regs |-> ZeroValue]
    /\ by = [r \in Regs |-> Unused]
    /\ out = NoOut
    /\ heap = <<>>
    /\ loc = [r \in Regs |-> TreeZero]
    /\ res = NoRes
    /\ \E in \in VariadicInputs : test = Locals(in)

\* d := Min(ds[0], ds[1:]...)
VariadicMin ==
    /\ test.in.fn = "Min"
    /\ Assign(0, Min(Head(test.in.ds), Tail(test.in.ds)))

VariadicMax ==
    /\ test.in.fn = "Max"
    /\ Assign(0, Max(Head(test.in.ds), Tail(test.in.ds)))

VariadicSum ==
    /\ test.in.fn = "Sum"
    /\ Assign(0, Sum(Head(test.in.ds), Tail(test.in.ds)))

VariadicAvg ==
    /\ test.in.fn = "Avg"
    /\ AvgOK(Decimals(Head(test.in.ds), Tail(test.in.ds)))
    /\ Assign(0, Avg(Head(test.in.ds), Tail(test.in.ds)))

VariadicMath == CallMath(1)

NextVariadic ==
    \/ VariadicMin
    \/ VariadicMax
    \/ VariadicSum
    \/ VariadicAvg
    \/ VariadicMath

SpecVariadic == InitVariadic /\ [][NextVariadic]_vars

(***************************************************************************)
(* The tree-based implementation: a caller that holds Decimals in locals   *)
(* and applies the live operations to them.  An operand stays in its       *)
(* local, so one Decimal can be passed twice and used again.               *)
(***************************************************************************)
TreeNames == {"a", ""}

TreeValues == {0 - Unit}

InitTree == Init

\* loc[r] = d, with the heap h
Store(r, h, d) ==
    /\ Len(h) <= MaxHeap
    /\ heap' = h
    /\ loc' = [loc EXCEPT ![r] = d]
    /\ res' = NoRes
    /\ UNCHANGED <<reg, by, out, test>>

DoTreeZero(r) ==
    /\ loc[r] # TreeZero
    /\ Store(r, heap, TreeZero)

DoTreeNew(r, value) == Store(r, heap, TreeNew(value))

DoTreeNewWithName(r, name, value) == Store(r, heap, TreeNewWithName(name, value))

DoTreeAbs(r, p) ==
    LET a == TreeAbs(heap, loc[p]) IN Store(r, a.heap, a.d)

DoTreeAdd(r, p, q) ==
    LET a == TreeAdd(heap, loc[p], loc[q]) IN Store(r, a.heap, a.d)

DoTreeMath(r) ==
    /\ LET m == TreeMath(heap, loc[r])
       IN  res' = [r |-> r, status |-> m.status, vars |-> m.vars,
                   formula |-> m.formula]
    /\ UNCHANGED <<reg, by, out, test, heap, loc>>

NextTree ==
    \/ \E r \in Regs : DoTreeZero(r)
    \/ \E r \in Regs, value \in TreeValues : DoTreeNew(r, value)
    \/ \E r \in Regs, name \in TreeNames, value \in TreeValues :
          DoTreeNewWithName(r, name, value)
    \/ \E r, p \in Regs : DoTreeAbs(r, p)
    \/ \E r, p, q \in Regs : DoTreeAdd(r, p, q)
    \/ \E r \in Regs : DoTreeMath(r)

SpecTree == InitTree /\ [][NextTree]_vars

(***************************************************************************)
(* A caller of NewFromString and NewFromStringWithName, of either          *)
(* implementation: the call, and Math() on the Decimal it returned when    *)
(* the error is nil.                                                       *)
(***************************************************************************)
\* the strings of at most MaxLen characters whose value, when they are
\* plain, the model holds
ParseStrings ==
    {cs \in UNION {[1..k -> Chars] : k \in 0..MaxLen} :
        Plain(cs) => Len(Parts(cs).frac) <= Scale}

ParseInputs ==
    {in \in [fn : {"NewFromString", "NewFromStringWithName",
                   "TreeNewFromString", "TreeNewFromStringWithName"},
             name : {"var1"},
             value : ParseStrings,
             lib : UNION {dNewFromString(cs) : cs \in ParseStrings}] :
        in.lib \in dNewFromString(in.value)}

InitParse ==
    /\ reg = [r \in Regs |-> ZeroValue]
    /\ by = [r \in Regs |-> Unused]
    /\ out = NoOut
    /\ heap = <<>>
    /\ loc = [r \in Regs |-> TreeZero]
    /\ res = NoRes
    /\ \E in \in ParseInputs :
          test = [pc |-> 0, in |-> in, d |-> ZeroValue, d2 |-> ZeroValue,
                  vars |-> <<>>, formula |-> <<>>, err |-> "unset"]

\* d, err := NewFromString(value) and d, err := NewFromStringWithName(...)
ParseCall ==
    /\ test.pc = 0
    /\ test.in.fn \in {"NewFromString", "NewFromStringWithName"}
    /\ LET in == test.in
           r == IF in.fn = "NewFromString"
                THEN NewFromString(in.value, in.lib)
                ELSE NewFromStringWithName(in.name, in.value, in.lib)
       IN  test' = [test EXCEPT !.pc = 1, !.d = r.d, !.err = r.err]
    /\ UNCHANGED <<reg, by, out, tree>>

\* the same calls on the tree-based implementation
ParseTreeCall ==
    /\ test.pc = 0
    /\ test.in.fn \in {"TreeNewFromString", "TreeNewFromStringWithName"}
    /\ LET in == test.in
           r == IF in.fn = "TreeNewFromString"
                THEN TreeNewFromString(in.value, in.lib)
                ELSE TreeNewFromStringWithName(in.name, in.value, in.lib)
       IN  /\ test' = [test EXCEPT !.pc = 1, !.err = r.err]
           /\ loc' = [loc EXCEPT ![1] = r.d]
    /\ UNCHANGED <<reg, by, out, heap, res>>

ParseMath ==
    /\ test.err = "nil"
    /\ test.in.fn \in {"NewFromString", "NewFromStringWithName"}
    /\ CallMath(1)

ParseTreeMath ==
    /\ test.pc = 1
    /\ test.err = "nil"
    /\ test.in.fn \in {"TreeNewFromString", "TreeNewFromStringWithName"}
    /\ res = NoRes
    /\ DoTreeMath(1)

NextParse ==
    \/ ParseCall
    \/ ParseTreeCall
    \/ ParseMath
    \/ ParseTreeMath

SpecParse == InitParse /\ [][NextParse]_vars

(***************************************************************************)
(* Goroutines that share one Decimal without synchronization: two of them  *)
(* call Math() on it, one iteration of the loop at a time with the         *)
(* tree-based code, while others apply operations to it whose results      *)
(* they keep in a local of their own.  Nobody assigns to the shared        *)
(* variable.  loc[1] (tree-based) and reg[1] (string-based) are the        *)
(* shared Decimal; test.th[t] holds the locals of the Math() call of       *)
(* goroutine t: where it is (pc), the locals of its loop or its copy of    *)
(* the receiver (s), the address of that copy (root), the size of the heap *)
(* when it returned (upto), what it returned (out) and the nodes its loop  *)
(* has entered, one per iteration (trace).                                 *)
(***************************************************************************)
Threads == {1, 2}

\* the tree-based Decimals that are shared, each with the heap it lives in
SharedTrees ==
    LET a == TreeNewWithName("a", 0 - Unit)
        u == TreeNew(Unit)
        abs1 == TreeAbs(<<>>, a)
        add1 == TreeAdd(<<>>, a, u)
    IN  {[heap |-> <<>>, d |-> a], abs1, add1,
         TreeAbs(add1.heap, add1.d), TreeAdd(abs1.heap, abs1.d, u)}

\* the string-based Decimals that are shared
SharedStrings ==
    LET a == NewWithName("a", 0 - Unit)
        u == New(Unit)
    IN  {a, u, ZeroValue, Abs(a), Add(a, u), SetName(Add(a, u), "c")}

ConcInputs ==
    [impl : {"tree"}, tree : SharedTrees, str : {ZeroValue}]
        \cup [impl : {"string"}, tree : {[heap |-> <<>>, d |-> TreeZero]},
              str : SharedStrings]

Idle ==
    [pc |-> "idle", s |-> <<>>, root |-> 0, upto |-> 0,
     out |-> Outcome("none", <<>>, <<>>), trace |-> <<>>]

InitConc ==
    /\ by = [r \in Regs |-> Unused]
    /\ out = NoOut
    /\ res = NoRes
    /\ \E in \in ConcInputs :
          /\ test = [in |-> in, ops |-> 0, th |-> [t \in Threads |-> Idle]]
          /\ heap = in.tree.heap
          /\ loc = [r \in Regs |-> IF r = 1 THEN in.tree.d ELSE TreeZero]
          /\ reg = [r \in Regs |-> IF r = 1 THEN in.str ELSE ZeroValue]

\* goroutine t calls loc[1].Math(): the receiver is copied; a leaf is
\* rendered at once, otherwise the loop starts at the copy
ConcMathCall(t) ==
    /\ test.in.impl = "tree"
    /\ test.th[t].pc = "idle"
    /\ IF loc[1].op = nil
       THEN /\ test' = [test EXCEPT !.th[t] =
                           [@ EXCEPT !.pc = "done", !.upto = Len(heap),
                                     !.out = TreeMath(heap, loc[1])]]
            /\ heap' = heap
       ELSE /\ heap' = Append(heap, loc[1])
            /\ test' = [test EXCEPT !.th[t] =
                           [@ EXCEPT !.pc = "loop", !.root = Len(heap) + 1,
                                     !.s = Loop(Len(heap) + 1, <<>>, {}, <<>>,
                                                <<>>, <<>>)]]
    /\ UNCHANGED <<reg, by, out, loc, res>>

\* one iteration of the loop of goroutine t
ConcMathStep(t) ==
    /\ test.th[t].pc = "loop"
    /\ test.th[t].s.cur # 0
    /\ ~test.th[t].s.panic
    /\ test' = [test EXCEPT !.th[t].s = Step(heap, @),
                          !.th[t].trace = Append(@, test.th[t].s.cur)]
    /\ UNCHANGED <<reg, by, out, tree>>

\* the loop of goroutine t has ended: Math() returns
ConcMathReturn(t) ==
    /\ test.th[t].pc = "loop"
    /\ test.th[t].s.cur = 0 \/ test.th[t].s.panic
    /\ test' = [test EXCEPT !.th[t] =
                   [@ EXCEPT !.pc = "done", !.upto = Len(heap),
                             !.out = Result(test.th[t].s)]]
    /\ UNCHANGED <<reg, by, out, tree>>

\* another goroutine runs x := shared.Abs() or x := shared.Add(x)
ConcTreeOp ==
    /\ test.in.impl = "tree"
    /\ test.ops < MaxOps
    /\ \E a \in {TreeAbs(heap, loc[1]), TreeAdd(heap, loc[1], loc[2])} :
          /\ heap' = a.heap
          /\ loc' = [loc EXCEPT ![2] = a.d]
    /\ test' = [test EXCEPT !.ops = @ + 1]
    /\ UNCHANGED <<reg, by, out, res>>

\* goroutine t calls reg[1].Math() on the string-based code: the receiver
\* is copied into the call
ConcStringCall(t) ==
    /\ test.in.impl = "string"
    /\ test.th[t].pc = "idle"
    /\ test' = [test EXCEPT !.th[t] = [@ EXCEPT !.pc = "copied", !.s = reg[1]]]
    /\ UNCHANGED <<reg, by, out, tree>>

\* the body of Math() on the copy; the caller's Decimal is what Math
\* leaves of it
ConcStringReturn(t) ==
    /\ test.th[t].pc = "copied"
    /\ LET m == Math(test.th[t].s)
       IN  /\ test' = [test EXCEPT !.th[t] =
                          [@ EXCEPT !.pc = "done", !.upto = test.ops,
                                    !.out = Outcome("ok", m.vars, m.formula)]]
           /\ reg' = [reg EXCEPT ![1] =
                         IF m.self = test.th[t].s THEN reg[1] ELSE m.self]
    /\ UNCHANGED <<by, out, tree>>

\* another goroutine runs x := shared.SetName("c"), shared.Resolve(),
\* shared.Abs() or shared.Add(x)
ConcStringOp ==
    /\ test.in.impl = "string"
    /\ test.ops < MaxOps
    /\ \E d \in {SetName(reg[1], "c"), Resolve(reg[1]), Abs(reg[1]),
                 Add(reg[1], reg[2])} :
          reg' = [reg EXCEPT ![2] = d]
    /\ test' = [test EXCEPT !.ops = @ + 1]
    /\ UNCHANGED <<by, out, tree>>

NextConc ==
    \/ \E t \in Threads : ConcMathCall(t)
    \/ \E t \in Threads : ConcMathStep(t)
    \/ \E t \in Threads : ConcMathReturn(t)
    \/ ConcTreeOp
    \/ \E t \in Threads : ConcStringCall(t)
    \/ \E t \in Threads : ConcStringReturn(t)
    \/ ConcStringOp

SpecConc == InitConc /\ [][NextConc]_vars

(***************************************************************************)
(* The loop of the tree-based Math() on its own, one iteration at a time,  *)
(* on the Decimal that an expression of Abs and Add calls builds.  An      *)
(* expression is <<"leaf", i>>, <<"abs", x>>, <<"add", x, y>> or           *)
(* <<"dup", x>>, which stands for y := x; y.Add(y): the one Decimal passed *)
(* as both operands.                                                       *)
(***************************************************************************)
\* the leaves: NewWithName("a", -1, 0), New(1, 0) and Decimal{}
LeafDecimals == <<TreeNewWithName("a", 0 - Unit), TreeNew(Unit), TreeZero>>

RECURSIVE ExprsOf(_)
\* the expressions of exactly n calls
ExprsOf(n) ==
    IF n = 0 THEN {<<"leaf", i>> : i \in 1..Len(LeafDecimals)}
    ELSE {<<"abs", x>> : x \in ExprsOf(n - 1)}
            \cup {<<"dup", x>> : x \in ExprsOf(n - 1)}
            \cup UNION {{<<"add", x, y>> : x \in ExprsOf(k),
                                          y \in ExprsOf(n - 1 - k)} :
                           k \in 0..(n - 1)}

RECURSIVE Build(_, _)
\* the Decimal of expression e, with the heap its calls leave behind
Build(h, e) ==
    IF e[1] = "leaf" THEN [heap |-> h, d |-> LeafDecimals[e[2]]]
    ELSE IF e[1] = "abs"
      THEN LET x == Build(h, e[2]) IN TreeAbs(x.heap, x.d)
    ELSE IF e[1] = "dup"
      THEN LET x == Build(h, e[2]) IN TreeAdd(x.heap, x.d, x.d)
    ELSE LET x == Build(h, e[2])
             y == Build(x.heap, e[3])
         IN  TreeAdd(y.heap, x.d, y.d)

LoopInputs ==
    {[impl |-> "tree", tree |-> Build(<<>>, e), str |-> ZeroValue, e |-> e] :
        e \in UNION {ExprsOf(n) : n \in 0..MaxNodes}}

InitLoop ==
    /\ by = [r \in Regs |-> Unused]
    /\ out = NoOut
    /\ res = NoRes
    /\ reg = [r \in Regs |-> ZeroValue]
    /\ \E in \in LoopInputs :
          /\ test = [in |-> in, ops |-> 0, th |-> [t \in Threads |-> Idle]]
          /\ heap = in.tree.heap
          /\ loc = [r \in Regs |-> IF r = 1 THEN in.tree.d ELSE TreeZero]

NextLoop ==
    \/ ConcMathCall(1)
    \/ ConcMathStep(1)
    \/ ConcMathReturn(1)

SpecLoop == InitLoop /\ [][NextLoop]_vars

(***************************************************************************)
(* TestUnknownName (src/tomath_test.go:355-368) as a program: a Decimal is *)
(* decoded into, rendered, named and rendered again; the program then      *)
(* uses it as an operand and renders the result.  The Decimal it starts    *)
(* from, the decoder and its answer, the name, the operation and the side  *)
(* are drawn; "none" skips the decoding.                                   *)
(***************************************************************************)
\* the leaves the program starts from: made without a name, made with one,
\* and made without a name and named since
StartLeaves ==
    {ZeroValue, New(2 * Unit), NewWithName("a", 2 * Unit),
     SetName(New(2 * Unit), "d")}

\* the Decimals with an operation history it starts from
StartResults ==
    LET a == NewWithName("a", 2 * Unit)
        b == NewWithName("b", 3 * Unit)
    IN  {Add(a, b), SetName(Add(a, b), "d"), Abs(a)}

UnknownNameInputs ==
    {in \in [d : StartLeaves \cup StartResults,
             fn : {"none", "UnmarshalJSON", "UnmarshalText", "UnmarshalBinary",
                   "Scan", "GobDecode"},
             lib : [err : {"nil", "error"}, d : {0, 5 * Unit}],
             n : {"var1", ""},
             op : {"Add", "Mul"},
             left : BOOLEAN] :
        /\ in.lib.err = "error" => in.lib.d = 0
        /\ in.fn = "none" => in.lib = [err |-> "nil", d |-> 5 * Unit]}

InitUnknownName ==
    /\ reg = [r \in Regs |-> ZeroValue]
    /\ by = [r \in Regs |-> Unused]
    /\ out = NoOut
    /\ heap = <<>>
    /\ loc = [r \in Regs |-> TreeZero]
    /\ res = NoRes
    /\ \E in \in UnknownNameInputs :
          test = [pc |-> 0, in |-> in, d |-> ZeroValue, d2 |-> ZeroValue,
                  vars |-> <<>>, formula |-> <<>>, err |-> "unset"]

UnknownNameGiven == Assign(0, test.in.d)

\* err := d.<fn>(data), on the caller's Decimal; the program stops on an error
UnknownNameDecode ==
    /\ test.pc = 1
    /\ LET fn == test.in.fn
           r == CASE fn = "UnmarshalJSON" -> UnmarshalJSON(test.d, test.in.lib)
                  [] fn = "UnmarshalText" -> UnmarshalText(test.d, test.in.lib)
                  [] fn = "UnmarshalBinary" -> UnmarshalBinary(test.d, test.in.lib)
                  [] fn = "Scan" -> Scan(test.d, test.in.lib)
                  [] fn = "GobDecode" -> GobDecode(test.d, test.in.lib)
                  [] fn = "none" -> [d |-> test.d, err |-> "nil"]
       IN  test' = [test EXCEPT !.d = r.d, !.err = r.err,
                                !.pc = IF r.err = "nil" THEN 2 ELSE 8]
    /\ UNCHANGED <<reg, by, out, tree>>

UnknownNameMath == CallMath(2)

UnknownNameSetName == Assign(3, SetName(test.d, test.in.n))

UnknownNameNamedMath == CallMath(4)

\* d = d.<op>(var6), or d = var6.<op>(d)
UnknownNameUse ==
    LET var6 == NewWithName("var6", 2 * Unit)
    IN  IF test.in.left
        THEN /\ ApplyOK(test.in.op, test.d.decimal, var6.decimal)
             /\ Assign(5, Apply(test.in.op, test.d, var6))
        ELSE /\ ApplyOK(test.in.op, var6.decimal, test.d.decimal)
             /\ Assign(5, Apply(test.in.op, var6, test.d))

UnknownNameUsedMath == CallMath(6)

NextUnknownName ==
    \/ UnknownNameGiven
    \/ UnknownNameDecode
    \/ UnknownNameMath
    \/ UnknownNameSetName
    \/ UnknownNameNamedMath
    \/ UnknownNameUse
    \/ UnknownNameUsedMath

SpecUnknownName == InitUnknownName /\ [][NextUnknownName]_vars

(***************************************************************************)
(* The classification of the operator tags, applied to a byte.             *)
(***************************************************************************)
Bytes == 0..255

InitClassify ==
    /\ reg = [r \in Regs |-> ZeroValue]
    /\ by = [r \in Regs |-> Unused]
    /\ out = NoOut
    /\ heap = <<>>
    /\ loc = [r \in Regs |-> TreeZero]
    /\ res = NoRes
    /\ \E b \in Bytes : test = [pc |-> 0, b |-> b, is |-> {}, symbol |-> nil]

\* the five predicates and the lookup in symbols, on the byte b
Classify ==
    /\ test.pc = 0
    /\ LET b == test.b
       IN  test' = [test EXCEPT
                       !.pc = 1,
                       !.is = {f \in {"isUnary", "isUnaryWithPrecision",
                                      "isBinary", "isBinaryWithPrecision",
                                      "isVariatic"} :
                                  CASE f = "isUnary" -> isUnary(b)
                                    [] f = "isUnaryWithPrecision" ->
                                           isUnaryWithPrecision(b)
                                    [] f = "isBinary" -> isBinary(b)
                                    [] f = "isBinaryWithPrecision" ->
                                           isBinaryWithPrecision(b)
                                    [] f = "isVariatic" -> isVariatic(b)},
                       !.symbol = IF b \in DOMAIN symbols THEN Ptr(symbols[b])
                                  ELSE nil]
    /\ UNCHANGED <<reg, by, out, tree>>

NextClassify == Classify

SpecClassify == InitClassify /\ [][NextClassify]_vars

(***************************************************************************)
(* Reading a rendered string.                                              *)
(***************************************************************************)
StartsWith(t, p) == Len(p) <= Len(t) /\ SubSeq(t, 1, Len(p)) = p

EndsWith(t, p) ==
    Len(p) <= Len(t) /\ SubSeq(t, Len(t) - Len(p) + 1, Len(t)) = p

\* the position of the last " = " of a string returned by Math()
LastEq(t) ==
    CHOOSE i \in 1..Len(t) :
        t[i] = " = " /\ \A j \in (i + 1)..Len(t) : t[j] # " = "

\* the text before and after the final " = "
Lhs(t) == SubSeq(t, 1, LastEq(t) - 1)
Rhs(t) == SubSeq(t, LastEq(t) + 1, Len(t))

Infix == [Add |-> " + ", Sub |-> " - ", Mul |-> " * ", Div |-> " / ",
          Mod |-> " % ", Pow |-> "^"]

InfixOps == DOMAIN Infix

\* the precedence of the spec: Pow > {Mul, Div, Mod} > {Add, Sub}
Prec(op) == IF op = "Pow" THEN 3 ELSE IF op \in {"Add", "Sub"} THEN 1 ELSE 2

\* the operator symbols, parentheses and separators Math() can print
Symbols ==
    {"(", ")", " = ", ", ", "abs(", "neg("}
        \cup {Infix[o] : o \in InfixOps}
        \cup {"round(" \o ToString(p) \o ")(" : p \in Places}

\* a string with every leaf token replaced by a placeholder
Masked(t) == [i \in 1..Len(t) |-> IF t[i] \in Symbols THEN t[i] ELSE "#"]

\* the operations that return one Decimal computed from their operands
SingleResultOps == InfixOps \cup {"Abs", "Round"}

\* a string inside one pair of parentheses
Wrapped(s) == <<"(">> \o s \o <<")">>

\* the text s stands at the place of operand i in the string text that
\* operation op built
Shown(op, i, s, text) ==
    IF op \in InfixOps
    THEN IF i = 1 THEN StartsWith(text, s \o <<Infix[op]>>)
         ELSE EndsWith(text, <<Infix[op]>> \o s)
    ELSE Len(text) >= 2 /\ text = <<Head(text)>> \o s \o <<")">>

(***************************************************************************)
(* C2  Math() is idempotent: a Math() call leaves the Decimals of the      *)
(* caller as they were, and a call that follows another call on the same   *)
(* Decimal returns the same two strings.                                   *)
(***************************************************************************)
C2_MathIdempotent ==
    [][out'.calls > 0 =>
          /\ reg' = reg
          /\ out.calls > 0 =>
                 out'.vars = out.vars /\ out'.formula = out.formula]_vars

C2_Witness ==
    /\ out.calls = 2
    /\ by[1].op = "Div"
    /\ by[1].named

(***************************************************************************)
(* C3  Alignment: with every leaf token replaced by a placeholder, the     *)
(* names string and the values string of Math() are the same before their  *)
(* final " = ".                                                            *)
(***************************************************************************)
C3_Aligned ==
    out.calls > 0 => Masked(Lhs(out.vars)) = Masked(Lhs(out.formula))

(***************************************************************************)
(* C4  Add(Add(a,b),c) has no parentheses, and an operand of Mul, Div,     *)
(* Mod or Pow that is the direct result of Add or Sub stands inside one    *)
(* pair of parentheses, in both strings; Math() prints these strings       *)
(* before the final " = ".                                                 *)
(***************************************************************************)
C4_Precedence ==
    /\ \A r \in Regs :
          LET b == by[r]
              d == reg[r]
          IN  /\ b.op \in {"Mul", "Div", "Mod", "Pow"} =>
                   \A i \in {1, 2} :
                       b.argby[i].op \in {"Add", "Sub"} =>
                           /\ Shown(b.op, i, Wrapped(b.args[i].vars), d.vars)
                           /\ Shown(b.op, i, Wrapped(b.args[i].formula),
                                    d.formula)
              /\ (b.op = "Add" /\ b.argby[1].op = "Add") =>
                   /\ d.vars = b.args[1].vars \o <<" + ">> \o b.args[2].vars
                   /\ d.formula =
                          b.args[1].formula \o <<" + ">> \o b.args[2].formula
    /\ (out.calls > 0 /\ by[1].op \in InfixOps) =>
          /\ Lhs(out.vars) = reg[1].vars
          /\ Lhs(out.formula) = reg[1].formula

C4_Witness ==
    /\ by[1].op = "Mul"
    /\ by[1].argby[1].op = "Add"
    /\ out.calls > 0
    /\ Str(out.vars) = "(a + b) * a = ?"
    /\ Str(out.formula) = "(2 + 2) * 2 = 8"

(***************************************************************************)
(* C5  A right operand of Sub, Div, Mod or Pow that is the result of an    *)
(* infix operator of equal or lower precedence stands in parentheses.      *)
(***************************************************************************)
C5_RightOperandParenthesized ==
    \A r \in Regs :
        LET b == by[r]
        IN  (/\ b.op \in {"Sub", "Div", "Mod", "Pow"}
             /\ b.argby[2].op \in InfixOps
             /\ Prec(b.argby[2].op) <= Prec(b.op)) =>
                /\ Shown(b.op, 2, Wrapped(b.args[2].vars), reg[r].vars)
                /\ Shown(b.op, 2, Wrapped(b.args[2].formula), reg[r].formula)

(***************************************************************************)
(* C6  A left operand that is the result of an infix operator of strictly  *)
(* lower precedence than the operator applied stands in parentheses.       *)
(***************************************************************************)
C6_LeftOperandParenthesized ==
    \A r \in Regs :
        LET b == by[r]
        IN  (/\ b.op \in InfixOps
             /\ b.argby[1].op \in InfixOps
             /\ Prec(b.argby[1].op) < Prec(b.op)) =>
                /\ Shown(b.op, 1, Wrapped(b.args[1].vars), reg[r].vars)
                /\ Shown(b.op, 1, Wrapped(b.args[1].formula), reg[r].formula)

(***************************************************************************)
(* C8  An operand that is a leaf created without a name is shown as "?"    *)
(* in the names string and as its value in the values string.              *)
(***************************************************************************)
C8_UnnamedOperandShown ==
    \A r \in Regs :
        LET b == by[r]
        IN  b.op \in SingleResultOps =>
                \A i \in 1..Len(b.args) :
                    (b.argby[i].op = "New" /\ ~b.argby[i].named) =>
                        /\ Shown(b.op, i, <<"?">>, reg[r].vars)
                        /\ Shown(b.op, i, Tok(dString(b.args[i].decimal)),
                                 reg[r].formula)

(***************************************************************************)
(* C10  The names string of the result of a single-result operation ends   *)
(* with " = " and the name SetName gave the result, and with " = ?" when   *)
(* no name was set on it.  As claimed, for every name; as amended, for     *)
(* every name that is not empty, an empty name being printed as "?".       *)
(***************************************************************************)
C10_FinalNameAsClaimed ==
    (out.calls > 0 /\ by[1].op \in SingleResultOps) =>
        Rhs(out.vars) = IF by[1].named THEN Tok(by[1].n) ELSE <<"?">>

C10_FinalName ==
    (out.calls > 0 /\ by[1].op \in SingleResultOps) =>
        Rhs(out.vars) =
            IF by[1].named /\ by[1].n # "" THEN <<by[1].n>> ELSE <<"?">>

C10_Witness ==
    /\ out.calls > 0
    /\ by[1].op = "Add"
    /\ by[1].named
    /\ Str(out.vars) = "a + b = c"

C7_SubOfSubs ==
    test.pc = 5 =>
        /\ Str(test.vars) = "var1 - var2 - var3 - var4 = ?"
        /\ Str(test.formula) =
               dString(test.in[1]) \o " - " \o dString(test.in[2]) \o " - "
                   \o dString(test.in[3]) \o " - " \o dString(test.in[4]) \o " = "
                   \o dString((test.in[1] - test.in[2]) - (test.in[3] - test.in[4]))
        /\ test.in = <<0 - Unit, 0, 0 - Unit, 0>> =>
               Str(test.formula) = "-1 - 0 - -1 - 0 = 0"

C7_Witness ==
    /\ test.pc = 5
    /\ test.in = <<0 - Unit, 0, 0 - Unit, 0>>
    /\ Str(test.formula) = "-1 - 0 - -1 - 0 = 0"

(***************************************************************************)
(* C9  A Decimal to which no operation has been applied, the zero value    *)
(* Decimal{} included, renders as "<n> = <n>" and "<v> = <v>", with "?"    *)
(* for n when it has no name or an empty name and "0" for v when it is     *)
(* the zero value, and Math() does not fail on it.  Stated of the          *)
(* tree-based Math().                                                      *)
(***************************************************************************)
C9_LeafRendering ==
    \A r \in Regs :
        (res.r = r /\ loc[r].op = nil) =>
            LET d == loc[r]
                n == IF d.name = nil \/ d.name = Ptr("") THEN "?" ELSE d.name[1]
                v == IF d.value = nil THEN "0" ELSE dString(d.value[1])
            IN  /\ res.status = "ok"
                /\ Str(res.vars) = n \o " = " \o n
                /\ Str(res.formula) = v \o " = " \o v

(***************************************************************************)
(* C11  Resolution round-trip: for a Decimal n and a name x that is not    *)
(* empty, n.ResolveTo(x) is the Decimal n.SetName(x).Resolve(), it has     *)
(* the value of n, and its Math() is "x = x" and "<value> = <value>".      *)
(* Stated of every step n' = n.ResolveTo(x) of the caller.                 *)
(***************************************************************************)
C11_RoundTrip ==
    [][(by'[1].op = "ResolveTo" /\ by'[1].n # "" /\ by' # by) =>
          LET n == reg[1]
              x == by'[1].n
              v == dString(n.decimal)
              m == Math(reg'[1])
          IN  /\ reg'[1] = Resolve(SetName(n, x))
              /\ reg'[1].decimal = n.decimal
              /\ Str(m.vars) = x \o " = " \o x
              /\ Str(m.formula) = v \o " = " \o v]_vars

C11_Witness ==
    /\ by[1].op = "ResolveTo"
    /\ by[1].n = "c"
    /\ by[1].size = 5
    /\ out.calls > 0
    /\ Str(out.vars) = "c = c"
    /\ Str(out.formula) = "4 = 4"

(***************************************************************************)
(* C12  After Resolve a Decimal is a named leaf in later operations: as    *)
(* an operand of an infix operation it shows only its name and its value,  *)
(* on either side and never in parentheses; the Decimal of the README      *)
(* example, named var5 = 3.1, resolved and added to var6 = 3, then named   *)
(* var7, renders "var5 + var6 = var7" and "3.1 + 3 = 6.1".                 *)
(***************************************************************************)
C12_ResolvedIsLeaf ==
    test.pc = 5 =>
        LET in == test.in
            sym == Infix[in.op]
            v5 == dString(in.d.decimal)
            v6 == dString(in.v)
        IN  /\ Str(test.vars) =
                  (IF in.left THEN "var5" \o sym \o "var6"
                   ELSE "var6" \o sym \o "var5") \o " = var7"
            /\ Str(Lhs(test.formula)) =
                  IF in.left THEN v5 \o sym \o v6 ELSE v6 \o sym \o v5
            /\ (in.d = SetName(ReadmeChain, "var5") /\ in.op = "Add"
                   /\ in.left /\ in.v = 3 * Unit) =>
                  /\ Str(test.vars) = "var5 + var6 = var7"
                  /\ Str(test.formula) = "3.1 + 3 = 6.1"

C12_Witness ==
    /\ test.pc = 5
    /\ test.in.d = SetName(ReadmeChain, "var5")
    /\ Str(test.formula) = "3.1 + 3 = 6.1"

(***************************************************************************)
(* C13  Resolve applied to a Decimal that has no name is a fatal error:    *)
(* it returns no Decimal, so every Decimal that Resolve has returned has   *)
(* the name of its receiver, which is not empty.                           *)
(***************************************************************************)
C13_ResolveNeedsName ==
    by[1].op = "Resolve" => reg[1].name # ""

(***************************************************************************)
(* C14  SetName(n) changes only the name shown after the final " = " of    *)
(* the names string: the value, the whole values string, the left-hand     *)
(* side of the names string of an operation result, and the text and the   *)
(* parentheses the Decimal gets as an operand stay as they were.  As       *)
(* claimed, of every receiver; as amended, of every receiver whose names   *)
(* rendering is not empty, an empty one (a leaf made without a name,       *)
(* Decimal{}) becoming n.  Stated of every step d' = d.SetName(n).         *)
(***************************************************************************)
SetNameStep ==
    /\ by'[1].named
    /\ by'[1].op = by[1].op
    /\ by'[1].args = by[1].args
    /\ by'[1].size = Used(by[1]) + 1

C14_OnlyFinalNameAsClaimed ==
    [][SetNameStep =>
          /\ reg'[1].decimal = reg[1].decimal
          /\ Math(reg'[1]).formula = Math(reg[1]).formula
          /\ by[1].op \in SingleResultOps =>
                Lhs(Math(reg'[1]).vars) = Lhs(Math(reg[1]).vars)
          /\ reg'[1].vars = reg[1].vars
          /\ reg'[1].formula = reg[1].formula
          /\ reg'[1].parens = reg[1].parens]_vars

C14_OnlyFinalName ==
    [][SetNameStep =>
          /\ reg'[1].decimal = reg[1].decimal
          /\ Math(reg'[1]).formula = Math(reg[1]).formula
          /\ by[1].op \in SingleResultOps =>
                Lhs(Math(reg'[1]).vars) = Lhs(Math(reg[1]).vars)
          /\ reg'[1].vars = IF reg[1].vars = <<>> THEN Tok(by'[1].n)
                            ELSE reg[1].vars
          /\ reg'[1].formula = reg[1].formula
          /\ reg'[1].parens = reg[1].parens]_vars

C14_Witness ==
    /\ by[1].op = "Sub"
    /\ by[1].named
    /\ by[1].n = "c"
    /\ out.calls > 0
    /\ Str(out.vars) = "a - b = c"

(***************************************************************************)
(* C15  No operation modifies its receiver or its arguments: every         *)
(* Decimal the caller holds, and every Decimal behind a pointer, is the    *)
(* same after a step as before it, and its Math() does the same before     *)
(* and after.  Stated of the tree-based code, where Decimals are reached   *)
(* through pointers; the string-based operations work on copies and        *)
(* return new values, Math() included (C2).                                *)
(***************************************************************************)
C15_Immutable ==
    [][/\ Len(heap') >= Len(heap)
       /\ \A a \in 1..Len(heap) : heap'[a] = heap[a]
       /\ \A q \in Regs : TreeMath(heap', loc[q]) = TreeMath(heap, loc[q])]_vars

C15_Witness ==
    /\ res.r = 1
    /\ res.status = "ok"
    /\ Str(res.vars) = "a = a"
    /\ loc[1].op = nil
    /\ loc[2].op = Ptr(add)
    /\ heap[loc[2].left] = loc[1]
    /\ heap[loc[2].right] = loc[1]

(***************************************************************************)
(* C16  Math() returns its two strings, without a runtime failure, for     *)
(* every Decimal the constructors and operations can produce, Decimal{}    *)
(* and x.Add(x) with x = a.Add(b) included.  Stated of the tree-based      *)
(* Math().                                                                 *)
(***************************************************************************)
C16_MathNeverFails ==
    res.r # 0 => res.status = "ok"

\* the number of paths from the Decimal d down to the address a
RECURSIVE PathCount(_, _, _)
PathCount(h, d, a) ==
    (IF d.left = 0 THEN 0
     ELSE (IF d.left = a THEN 1 ELSE 0) + PathCount(h, h[d.left], a))
    + (IF d.right = 0 THEN 0
       ELSE (IF d.right = a THEN 1 ELSE 0) + PathCount(h, h[d.right], a))

(***************************************************************************)
(* C17  Every expression is a tree: no node, compared by its address, is   *)
(* reached from a root along two different paths, whatever Decimals the    *)
(* caller passes and reuses.                                               *)
(***************************************************************************)
C17_NoSharedNode ==
    \A r \in Regs, a \in 1..Len(heap) : PathCount(heap, loc[r], a) <= 1

\* the value of the expression under the Decimal d
RECURSIVE Evaluation(_, _)
Evaluation(h, d) ==
    IF d.op = nil THEN (IF d.value = nil THEN 0 ELSE d.value[1])
    ELSE IF d.op = Ptr(abs) THEN dAbs(Evaluation(h, h[d.left]))
    ELSE dAdd(Evaluation(h, h[d.left]), Evaluation(h, h[d.right]))

(***************************************************************************)
(* C18  Every Decimal holds, from its construction on, the value of its    *)
(* operator applied to the values of its operands: the value is never      *)
(* absent and never stale.  Stated of the tree-based Decimal.              *)
(***************************************************************************)
C18_ValueHeld ==
    \A r \in Regs :
        loc[r] # TreeZero =>
            /\ loc[r].value # nil
            /\ loc[r].value[1] = Evaluation(heap, loc[r])

(***************************************************************************)
(* C19  QuoRem(d2, p) returns two Decimals whose strings are the same up   *)
(* to the final " = ", of the form "quoRem(p)(<left> / <right>)", and      *)
(* differ in what follows it: the names of d and d2 followed by Quotient   *)
(* against Remainder, and the quotient q against the remainder r, where    *)
(* d = d2 * q + r, q is a multiple of 10^-p and r is smaller than          *)
(* d2 * 10^-p with the sign of d.                                          *)
(***************************************************************************)
C19_QuoRem ==
    test.pc >= 2 =>
        LET in == test.in
            In(x, s) == IF x.parens THEN "(" \o Str(s) \o ")" ELSE Str(s)
            head == "quoRem(" \o ToString(in.precision) \o ")("
            names == head \o In(in.d, in.d.vars) \o " / "
                         \o In(in.d2, in.d2.vars) \o ")"
            values == head \o In(in.d, in.d.formula) \o " / "
                          \o In(in.d2, in.d2.formula) \o ")"
            n == in.d.decimal
            m == in.d2.decimal
            q == test.d.decimal
            r == test.d2.decimal
        IN  /\ n * Unit = m * q + r * Unit
            /\ q % (Unit \div Pow10(in.precision)) = 0
            /\ dAbsInt(r) * Pow10(in.precision) < dAbsInt(m)
            /\ r = 0 \/ (r > 0) = (n > 0)
            /\ test.pc = 2 =>
                  /\ Str(test.vars) =
                        names \o " = " \o in.d.name \o in.d2.name \o "Quotient"
                  /\ Str(test.formula) = values \o " = " \o dString(q)
            /\ test.pc = 3 =>
                  /\ Str(test.vars) =
                        names \o " = " \o in.d.name \o in.d2.name \o "Remainder"
                  /\ Str(test.formula) = values \o " = " \o dString(r)

C19_Witness ==
    /\ test.pc = 3
    /\ Str(test.vars) = "quoRem(1)(var1 / var2) = var1var2Remainder"
    /\ Str(test.formula) = "quoRem(1)(4.3 / 2.7) = 0.25"

\* the strings s[1], ..., s[k] separated by ", "
RECURSIVE Listed(_)
Listed(strs) ==
    IF Len(strs) = 1 THEN strs[1] ELSE strs[1] \o ", " \o Listed(Tail(strs))

Alone(a) ==
    LET m == Math(Decimal(FALSE, "", a.decimal, a.vars, a.formula))
    IN  [vars |-> Lhs(m.vars), formula |-> Lhs(m.formula)]

\* the text printed in front of the operand of a unary operation
UnaryHeads(op) ==
    IF op = "Abs" THEN {"abs("}
    ELSE {"round(" \o ToString(p) \o ")(" : p \in Places}

(***************************************************************************)
(* C21  A unary operation renders as its symbol, "(", the full rendering   *)
(* of its operand and ")" ("<symbol>(<parameter>)(" for Round), to any     *)
(* depth, and a unary result takes no parentheses as an operand of a       *)
(* binary operator.  The full rendering of an operand is what Math() shows *)
(* of it on its own.                                                       *)
(***************************************************************************)
C21_UnaryRendering ==
    \A r \in Regs :
        LET b == by[r]
        IN  /\ b.op \in {"Abs", "Round"} =>
                  /\ \E h \in UnaryHeads(b.op) :
                         reg[r].vars = <<h>> \o Alone(b.args[1]).vars \o <<")">>
                  /\ \E h \in UnaryHeads(b.op) :
                         reg[r].formula =
                             <<h>> \o Alone(b.args[1]).formula \o <<")">>
            /\ b.op \in InfixOps =>
                  \A i \in 1..2 :
                      b.argby[i].op \in {"Abs", "Round"} =>
                          /\ Shown(b.op, i, b.args[i].vars, reg[r].vars)
                          /\ Shown(b.op, i, b.args[i].formula, reg[r].formula)

(***************************************************************************)
(* C22  NewFromString and NewFromStringWithName return, for a string that  *)
(* is not a valid decimal, an error that is not nil and Decimal{}, which   *)
(* carries neither the requested name nor a value; for a valid string, a   *)
(* nil error and a leaf that holds the value the string writes: "1.5"      *)
(* reads as one and a half and renders "1.5 = 1.5".                        *)
(***************************************************************************)
C22_NewFromString ==
    test.pc >= 1 =>
        LET in == test.in
            named == in.fn \in {"NewFromStringWithName", "TreeNewFromStringWithName"}
            string == in.fn \in {"NewFromString", "NewFromStringWithName"}
        IN  /\ Hopeless(in.value) => test.err # "nil"
            /\ Plain(in.value) => test.err = "nil"
            /\ test.err # "nil" => test.d = ZeroValue /\ loc[1] = TreeZero
            /\ (test.err = "nil" /\ string) =>
                  /\ test.d.decimal = in.lib.d
                  /\ test.d.name = (IF named THEN in.name ELSE "")
                  /\ ~test.d.parens
                  /\ Math(test.d).vars =
                        (IF named THEN <<in.name, " = ", in.name>>
                         ELSE <<"?", " = ", "?">>)
                  /\ Str(Math(test.d).formula) =
                        dString(in.lib.d) \o " = " \o dString(in.lib.d)
                  /\ (Plain(in.value) /\ Parts(in.value).int # <<>>) =>
                        Str(Math(test.d).formula) =
                            Str(in.value) \o " = " \o Str(in.value)
                  /\ in.value = <<"1", ".", "5">> =>
                        test.d.decimal = Unit + Unit \div 2
            /\ (test.err = "nil" /\ ~string) =>
                  /\ loc[1].op = nil /\ loc[1].left = 0 /\ loc[1].right = 0
                  /\ loc[1].value = Ptr(in.lib.d)
                  /\ loc[1].name = (IF named THEN Ptr(in.name) ELSE nil)
                  /\ res.r = 1 =>
                        /\ res.status = "ok"
                        /\ Str(res.formula) =
                              dString(in.lib.d) \o " = " \o dString(in.lib.d)

C22_Witness ==
    /\ test.pc = 1
    /\ test.in.fn = "NewFromStringWithName"
    /\ test.in.value = <<"1", "x">>
    /\ test.err = "error"
    /\ test.d = ZeroValue

(***************************************************************************)
(* C23  Math() calls and operations (Add, Abs, SetName, Resolve) that run  *)
(* concurrently on one Decimal need no synchronization: no step changes    *)
(* the shared Decimal, a node that is already in the heap or the locals    *)
(* of another call, and every Math() call returns what Math() returns on   *)
(* that Decimal when it runs alone.                                        *)
(***************************************************************************)
C23_NoSynchronization ==
    /\ [](\A t \in Threads :
             test.th[t].pc = "done" =>
                 test.th[t].out =
                     IF test.in.impl = "tree"
                     THEN TreeMath(test.in.tree.heap, test.in.tree.d)
                     ELSE LET m == Math(test.in.str)
                          IN  Outcome("ok", m.vars, m.formula))
    /\ [][/\ loc'[1] = loc[1]
          /\ reg'[1] = reg[1]
          /\ Len(heap') >= Len(heap)
          /\ \A a \in 1..Len(heap) : heap'[a] = heap[a]
          /\ \A t, u \in Threads :
                (t # u /\ test.th[t]' # test.th[t]) => test.th[u]' = test.th[u]
          /\ \A t \in Threads :
                test.ops' # test.ops => test.th[t]' = test.th[t]]_vars

\* a Math() call on Abs(a + ?) that returned after an operation of another
\* goroutine had allocated nodes during its loop
C23_Witness ==
    /\ test.in.impl = "tree"
    /\ test.th[1].pc = "done"
    /\ test.th[1].upto > test.th[1].root
    /\ test.th[1].out.status = "ok"
    /\ Str(test.th[1].out.vars) = "abs(a + ?) = ?"
    /\ test.th[2].pc = "loop"

(***************************************************************************)
(* C24  Compositional rendering: the text that Math() shows of a Decimal   *)
(* before the final " = ", in the names string and in the values string,   *)
(* stands unchanged, or inside one pair of parentheses, at the place of    *)
(* that Decimal in the rendering of a Decimal built from it.               *)
(***************************************************************************)
C24_Compositional ==
    \A r \in Regs :
        LET b == by[r]
        IN  b.op \in SingleResultOps =>
                \A i \in 1..Len(b.args) :
                    LET own == Alone(b.args[i])
                    IN  /\ \/ Shown(b.op, i, own.vars, reg[r].vars)
                           \/ Shown(b.op, i, Wrapped(own.vars), reg[r].vars)
                        /\ \/ Shown(b.op, i, own.formula, reg[r].formula)
                           \/ Shown(b.op, i, Wrapped(own.formula), reg[r].formula)

\* the expressions in which no node is reached twice: a Decimal passed as
\* both operands is a leaf
RECURSIVE Unshared(_)
Unshared(e) ==
    IF e[1] = "leaf" THEN TRUE
    ELSE IF e[1] = "dup" THEN e[2][1] = "leaf"
    ELSE \A i \in 2..Len(e) : Unshared(e[i])

\* the longest path from the root of an expression to a leaf
RECURSIVE Depth(_)
Depth(e) ==
    IF e[1] = "leaf" THEN 0
    ELSE IF e[1] = "add"
      THEN 1 + (IF Depth(e[2]) > Depth(e[3]) THEN Depth(e[2]) ELSE Depth(e[3]))
    ELSE 1 + Depth(e[2])

\* how often the loop has entered node a
Entered(trace, a) == Cardinality({i \in 1..Len(trace) : trace[i] = a})

(***************************************************************************)
(* C25  The loop of the tree-based Math() terminates on every expression   *)
(* of Abs and Add calls: it is left with the current-node pointer nil and  *)
(* not by a runtime failure, no node is entered more than three times      *)
(* (once, and once more after each child), and the stack of parents never  *)
(* holds more entries than the tree is deep.                               *)
(***************************************************************************)
C25_LoopTerminates ==
    LET th == test.th[1]
    IN  /\ th.pc = "loop" =>
              /\ ~th.s.panic
              /\ Len(th.s.parents) <= Depth(test.in.e)
              /\ \A a \in 1..Len(heap) : Entered(th.trace, a) <= 3
        /\ th.pc = "done" => th.out.status = "ok"

\* the name and the value a leaf stands for: "?" without a name, 0 for
\* Decimal{}
LeafName(d) == IF d.name = nil \/ d.name = Ptr("") THEN "?" ELSE d.name[1]
LeafValue(d) == IF d.value = nil THEN 0 ELSE d.value[1]

\* the operands of an expression: a Decimal passed twice is both
Operands(e) == IF e[1] = "dup" THEN <<e[2], e[2]>> ELSE Tail(e)

RECURSIVE RenderNames(_), RenderValues(_), BottomUp(_)
\* r(e) in names, r(e) in values, and the value of e
RenderNames(e) ==
    IF e[1] = "leaf" THEN LeafName(LeafDecimals[e[2]])
    ELSE IF e[1] = "abs" THEN "abs(" \o RenderNames(e[2]) \o ")"
    ELSE RenderNames(Operands(e)[1]) \o " + " \o RenderNames(Operands(e)[2])

RenderValues(e) ==
    IF e[1] = "leaf" THEN dString(LeafValue(LeafDecimals[e[2]]))
    ELSE IF e[1] = "abs" THEN "abs(" \o RenderValues(e[2]) \o ")"
    ELSE RenderValues(Operands(e)[1]) \o " + " \o RenderValues(Operands(e)[2])

BottomUp(e) ==
    IF e[1] = "leaf" THEN LeafValue(LeafDecimals[e[2]])
    ELSE IF e[1] = "abs"
      THEN (IF BottomUp(e[2]) < 0 THEN 0 - BottomUp(e[2]) ELSE BottomUp(e[2]))
    ELSE BottomUp(Operands(e)[1]) + BottomUp(Operands(e)[2])

(***************************************************************************)
(* C26  On every expression of Abs and Add calls over leaves in which no   *)
(* node is shared, the loop of the tree-based Math() returns the strings   *)
(* of the recursive definition r(leaf) = name or "?" / value,              *)
(* r(abs(x)) = "abs(" r(x) ")", r(add(x, y)) = r(x) " + " r(y), every      *)
(* operator symbol once per node, and after " = " the value of the         *)
(* bottom-up evaluation.                                                   *)
(***************************************************************************)
C26_LoopRefinesRecursion ==
    LET th == test.th[1]
        e == test.in.e
    IN  (Unshared(e) /\ e[1] # "leaf") =>
            /\ th.pc = "loop" => ~th.s.panic
            /\ th.pc = "done" =>
                  /\ th.out.status = "ok"
                  /\ Str(th.out.vars) = RenderNames(e) \o " = ?"
                  /\ Str(th.out.formula) =
                        RenderValues(e) \o " = " \o dString(BottomUp(e))

\* the iteration that starts in state s of the loop evaluates its node:
\* the node is an operation and no child is left to visit
Evaluating(h, s) ==
    LET c == h[s.cur]
    IN  /\ c.op # nil
        /\ c.left = 0 \/ c.left \in s.visited
        /\ c.right = 0 \/ c.right \in s.visited

(***************************************************************************)
(* C27  In the loop of the tree-based Math(), on every expression with no  *)
(* shared node, at every iteration: the stack of parents is not empty      *)
(* when a leaf is processed, the stack of values holds at least one entry  *)
(* when Abs is evaluated and at least two when Add is evaluated; and when  *)
(* the loop is left the stack of values holds exactly one entry.           *)
(***************************************************************************)
C27_Stacks ==
    LET th == test.th[1]
    IN  (Unshared(test.in.e) /\ th.pc = "loop" /\ ~th.s.panic) =>
            IF th.s.cur = 0 THEN Len(th.s.values) = 1
            ELSE LET c == heap[th.s.cur]
                 IN  /\ c.op = nil => Len(th.s.parents) >= 1
                     /\ (Evaluating(heap, th.s) /\ c.op = Ptr(abs)) =>
                            Len(th.s.values) >= 1
                     /\ (Evaluating(heap, th.s) /\ c.op = Ptr(add)) =>
                            Len(th.s.values) >= 2

\* the inner Add of a + (abs(?) + a) is about to be evaluated, with the
\* value of the outer left operand below its own two
C27_Witness ==
    LET th == test.th[1]
    IN  /\ test.in.e = <<"add", <<"leaf", 1>>,
                               <<"add", <<"abs", <<"leaf", 2>>>>, <<"leaf", 1>>>>>>
        /\ th.pc = "loop"
        /\ th.s.cur # 0
        /\ Evaluating(heap, th.s)
        /\ heap[th.s.cur].op = Ptr(add)
        /\ th.s.values = <<0 - Unit, Unit, 0 - Unit>>
        /\ Len(th.s.parents) = 1

\* the place of the Decimal d in the operation the program applies
Side == IF test.in.left THEN 1 ELSE 2

C29_DecodedIsLeaf ==
    (test.pc = 3 /\ test.in.fn # "none") =>
        LET v == dString(test.in.lib.d)
            n == IF test.in.d.name = "" THEN "?" ELSE test.in.d.name
        IN  /\ Str(test.formula) = v \o " = " \o v
            /\ Str(test.vars) = n \o " = " \o n
            /\ Masked(test.vars) = Masked(test.formula)

\* the operator tags
Tags ==
    {round, roundBank, roundCash, shift, truncate, abs, atan, ceil, cos, floor,
     neg, sin, tan, divRound, quoRem, add, div, mod, mul, pow, sub, avg, max,
     min, sum}

(***************************************************************************)
(* C30  The classification partitions the 25 operator tags: for every tag  *)
(* exactly one of isUnary, isBinary and isVariatic is true;                *)
(* isUnaryWithPrecision holds exactly for round, roundBank, roundCash,     *)
(* shift and truncate, isBinaryWithPrecision exactly for divRound and      *)
(* quoRem, isVariatic exactly for avg, max, min and sum; and every tag has *)
(* an entry in symbols.                                                    *)
(***************************************************************************)
C30_Classification ==
    /\ Cardinality(Tags) = 25
    /\ (test.pc = 1 /\ test.b \in Tags) =>
          /\ Cardinality(test.is \cap {"isUnary", "isBinary", "isVariatic"}) = 1
          /\ "isUnaryWithPrecision" \in test.is <=>
                test.b \in {round, roundBank, roundCash, shift, truncate}
          /\ "isBinaryWithPrecision" \in test.is <=>
                test.b \in {divRound, quoRem}
          /\ "isVariatic" \in test.is <=> test.b \in {avg, max, min, sum}
          /\ test.symbol # nil

C30_Witness ==
    /\ test.pc = 1
    /\ test.b = divRound
    /\ test.is = {"isBinary", "isBinaryWithPrecision"}
    /\ test.symbol = Ptr("divRound")

====
